---- MODULE Spec2Model ----
(***************************************************************************)
(* Hospital-Management-System: the data-management layer.                  *)
(*                                                                         *)
(* The four collections are the four CSV files of HospitalDataManager.     *)
(* A file is the sequence of its data rows; a row maps each column of the  *)
(* header to the text of its cell; a text is a sequence of one-character   *)
(* strings.  Every operation reads a whole file with pandas.read_csv       *)
(* (which infers one type per column), works on the typed frame, and       *)
(* every add writes the whole frame back with DataFrame.to_csv.            *)
(***************************************************************************)
EXTENDS Integers, Sequences, FiniteSets, TLC

(* ----------------------------- bounds ---------------------------------- *)

\* Rows held by the four collections together.
MaxRecords == 2

(* ----------------------------- characters ------------------------------ *)

\* The printable ASCII characters, in code order 32..126 (code 96, the grave
\* accent, is held by a name: the character cannot be written in a string).
Ascii ==
  << " ", "!", "\"", "#", "$", "%", "&", "'", "(", ")", "*", "+", ",", "-", ".", "/",
     "0", "1", "2", "3", "4", "5", "6", "7", "8", "9", ":", ";", "<", "=", ">", "?",
     "@", "A", "B", "C", "D", "E", "F", "G", "H", "I", "J", "K", "L", "M", "N", "O",
     "P", "Q", "R", "S", "T", "U", "V", "W", "X", "Y", "Z", "[", "\\", "]", "^", "_",
     "grave", "a", "b", "c", "d", "e", "f", "g", "h", "i", "j", "k", "l", "m", "n", "o",
     "p", "q", "r", "s", "t", "u", "v", "w", "x", "y", "z", "{", "|", "}", "~" >>

\* f itself, evaluated once here rather than at each later use
Strict(f) == f @@ << >>

Char == { Ascii[i] : i \in DOMAIN Ascii }

\* ord(c)
Ord == Strict([ c \in Char |-> 31 + (CHOOSE i \in DOMAIN Ascii : Ascii[i] = c) ])

Digits == << "0", "1", "2", "3", "4", "5", "6", "7", "8", "9" >>

DigitSet == { Digits[i] : i \in DOMAIN Digits }

IsDigit(c) == c \in DigitSet

\* ord(c) - ord('0')
DigitVal(c) == (CHOOSE i \in DOMAIN Digits : Digits[i] = c) - 1

\* str.lower() of one character
Lower(c) == IF Ord[c] >= 65 /\ Ord[c] <= 90 THEN Ascii[Ord[c] + 32 - 31] ELSE c

(* ----------------------------- Python values --------------------------- *)

I(n) == [t |-> "int", v |-> n]
F(n) == [t |-> "float", v |-> n]      \* a float with a whole value n.0
S(x) == [t |-> "str", v |-> x]
NaN == [t |-> "nan", v |-> 0]
None == [t |-> "none", v |-> 0]
DF(rows) == [t |-> "df", v |-> rows]  \* a DataFrame: its rows in order

RECURSIVE NatToText(_)
NatToText(n) ==
  IF n < 10 THEN << Digits[n + 1] >>
  ELSE Append(NatToText(n \div 10), Digits[(n % 10) + 1])

\* str(n) of a Python int
IntToText(n) == IF n < 0 THEN << "-" >> \o NatToText(0 - n) ELSE NatToText(n)

\* repr of a whole-valued float: 150.0 -> "150.0"
FloatToText(n) == IntToText(n) \o << ".", "0" >>

RECURSIVE DigitsToNat(_)
DigitsToNat(s) ==
  IF Len(s) = 0 THEN 0
  ELSE 10 * DigitsToNat(SubSeq(s, 1, Len(s) - 1)) + DigitVal(s[Len(s)])

AllDigits(s) == Len(s) > 0 /\ \A i \in 1..Len(s) : IsDigit(s[i])

HasSign(s) == Len(s) > 0 /\ (s[1] = "-" \/ s[1] = "+")

Unsigned(s) == IF HasSign(s) THEN SubSeq(s, 2, Len(s)) ELSE s

\* a text the parser reads as an integer: optional sign, then digits
IsIntText(s) == AllDigits(Unsigned(s))

IntOfText(s) ==
  IF HasSign(s) /\ s[1] = "-" THEN 0 - DigitsToNat(Unsigned(s))
  ELSE DigitsToNat(Unsigned(s))

\* a text the parser reads as a float with a whole value: digits "." zeros
\* (texts with other fraction digits or an exponent are not produced here)
IsFloatText(s) ==
  LET u == Unsigned(s) IN
  \E k \in 2..Len(u) :
     /\ u[k] = "."
     /\ AllDigits(SubSeq(u, 1, k - 1))
     /\ \A j \in (k + 1)..Len(u) : u[j] = "0"

FloatOfText(s) ==
  LET u == Unsigned(s)
      k == CHOOSE k \in 2..Len(u) : u[k] = "."
      n == DigitsToNat(SubSeq(u, 1, k - 1))
  IN IF HasSign(s) /\ s[1] = "-" THEN 0 - n ELSE n

(* ----------------------------- read_csv / to_csv ----------------------- *)

\* the default na_values of pandas: cells read as NaN
NAValues ==
  { << >>,
    << "#", "N", "/", "A" >>, << "#", "N", "/", "A", " ", "N", "/", "A" >>,
    << "#", "N", "A" >>, << "-", "1", ".", "#", "I", "N", "D" >>,
    << "-", "1", ".", "#", "Q", "N", "A", "N" >>, << "-", "N", "a", "N" >>,
    << "-", "n", "a", "n" >>, << "1", ".", "#", "I", "N", "D" >>,
    << "1", ".", "#", "Q", "N", "A", "N" >>, << "<", "N", "A", ">" >>,
    << "N", "/", "A" >>, << "N", "A" >>, << "N", "U", "L", "L" >>,
    << "N", "a", "N" >>, << "N", "o", "n", "e" >>, << "n", "/", "a" >>,
    << "n", "a", "n" >>, << "n", "u", "l", "l" >> }

\* the first characters of the na_values
NAFirst == { s[1] : s \in NAValues \ { << >> } }

IsNA(s) ==
  \/ Len(s) = 0
  \/ s[1] \in NAFirst /\ s \in NAValues

\* the dtype read_csv infers for a column from the texts of its cells
ColumnKind(cells) ==
  LET present == { i \in DOMAIN cells : ~IsNA(cells[i]) } IN
  IF \A i \in present : IsIntText(cells[i])
  THEN IF present = DOMAIN cells THEN "int64" ELSE "float64"
  ELSE IF \A i \in present : IsIntText(cells[i]) \/ IsFloatText(cells[i])
       THEN "float64"
       ELSE "object"

ParseCell(kind, s) ==
  IF IsNA(s) THEN NaN
  ELSE IF kind = "int64" THEN I(IntOfText(s))
  ELSE IF kind = "float64"
       THEN F(IF IsIntText(s) THEN IntOfText(s) ELSE FloatOfText(s))
  ELSE S(s)

Column(rows, c) == Strict([ i \in 1..Len(rows) |-> rows[i][c] ])

\* pd.read_csv(file): the typed frame of a file
read_csv(file) ==
  IF Len(file) = 0 THEN << >>
  ELSE LET kind == Strict([ c \in DOMAIN file[1] |-> ColumnKind(Column(file, c)) ]) IN
       Strict([ i \in 1..Len(file) |->
           Strict([ c \in DOMAIN file[i] |-> ParseCell(kind[c], file[i][c]) ]) ])

\* the text to_csv writes for one value
CellText(val) ==
  IF val.t = "int" THEN IntToText(val.v)
  ELSE IF val.t = "float" THEN FloatToText(val.v)
  ELSE IF val.t = "str" THEN val.v
  ELSE << >>

\* df.to_csv(file, index=False): the rows written
to_csv(df) ==
  Strict([ i \in 1..Len(df) |-> Strict([ c \in DOMAIN df[i] |-> CellText(df[i][c]) ]) ])

\* df.fillna('')
fillna(df) ==
  Strict([ i \in 1..Len(df) |->
      Strict([ c \in DOMAIN df[i] |-> IF df[i][c].t = "nan" THEN S(<< >>) ELSE df[i][c] ]) ])

\* the new row put before the rows of the frame
concat_front(df, row) == << row >> \o df

\* pd.concat([df, pd.DataFrame([row])], ignore_index=True)
concat(df, row) == Append(df, row)

\* a file that is not there
Missing == << [missing |-> TRUE] >>

\* a file that is there and that read_csv cannot parse (no header line, a row
\* with more fields than the header, bytes that are no text ...): one value
\* stands for all such contents
Unreadable == << [unreadable |-> TRUE] >>

\* os.path.exists(file)
exists(file) == file # Missing

\* pd.read_csv(file) raises
read_csv_raises(file) == file = Missing \/ file = Unreadable

(* ----------------------------- Python built-ins ------------------------ *)

\* str(x)
PyStr(val) ==
  IF val.t = "int" THEN IntToText(val.v)
  ELSE IF val.t = "float" THEN FloatToText(val.v)
  ELSE IF val.t = "str" THEN val.v
  ELSE IF val.t = "nan" THEN << "n", "a", "n" >>
  ELSE << "N", "o", "n", "e" >>

\* int(x): ok is FALSE where Python raises
PyInt(val) ==
  IF val.t \in {"int", "float"} THEN [ok |-> TRUE, v |-> val.v]
  ELSE IF val.t = "str" /\ IsIntText(val.v) THEN [ok |-> TRUE, v |-> IntOfText(val.v)]
  ELSE [ok |-> FALSE, v |-> 0]

\* float(x): ok is FALSE where Python raises
PyFloat(val) ==
  IF val.t \in {"int", "float"} THEN [ok |-> TRUE, v |-> val.v]
  ELSE IF val.t = "str" /\ IsIntText(val.v) THEN [ok |-> TRUE, v |-> IntOfText(val.v)]
  ELSE IF val.t = "str" /\ IsFloatText(val.v) THEN [ok |-> TRUE, v |-> FloatOfText(val.v)]
  ELSE [ok |-> FALSE, v |-> 0]

\* a < b for str (code-point order)
RECURSIVE TextLess(_, _)
TextLess(a, b) ==
  IF Len(b) = 0 THEN FALSE
  ELSE IF Len(a) = 0 THEN TRUE
  ELSE IF a[1] = b[1] THEN TextLess(Tail(a), Tail(b))
  ELSE Ord[a[1]] < Ord[b[1]]

\* Series.max(): NaN is skipped; an object column compares its strings.  (Where
\* pandas raises on an object column that also holds NaN, _generate_id catches
\* it and returns 1001; a column of the files modelled here then has a string
\* maximum that int() rejects, so the result is the same 1001.)
series_max(col) ==
  LET strs == { i \in DOMAIN col : col[i].t = "str" }
      nums == { i \in DOMAIN col : col[i].t \in {"int", "float"} }
  IN IF strs # {}
     THEN col[CHOOSE i \in strs : \A j \in strs : ~TextLess(col[i].v, col[j].v)]
     ELSE IF nums = {} THEN NaN
     ELSE col[CHOOSE i \in nums : \A j \in nums : col[j].v <= col[i].v]

(* ----------------------------- HospitalDataManager --------------------- *)

BaseId == 1001

\* _generate_id without the "+ 1": the largest id is handed out again
_generate_id_same(df, id_column) ==
  IF Len(df) = 0 THEN BaseId
  ELSE LET max_id == series_max(Column(df, id_column)) IN
       IF max_id.t = "nan" THEN BaseId
       ELSE IF PyInt(max_id).ok THEN PyInt(max_id).v
       ELSE BaseId

\* _generate_id(df, id_column)
_generate_id(df, id_column) ==
  IF Len(df) = 0 THEN BaseId
  ELSE LET max_id == series_max(Column(df, id_column)) IN
       IF max_id.t = "nan" THEN BaseId
       ELSE IF PyInt(max_id).ok THEN PyInt(max_id).v + 1
       ELSE BaseId

VARIABLES
  patients,       \* patients.csv: its data rows
  appointments,   \* appointments.csv
  medical,        \* medical_records.csv
  billing,        \* billing.csv
  op,             \* the last call: its name and its key argument
  ret,            \* what the last call returned
  added,          \* the arguments of the successful add_patient calls, in order
  pc,             \* two processes in add_patient: where each one is
  frame,          \* ... the frame each one holds in memory
  rid,            \* ... the id each one returns
  menu,           \* add_medical_record_interactive: the prompt it waits at
                  \* and the patient id it was given
  viz,            \* the visualizations folder: the data of each chart file
  dashboard_json  \* dashboard_data.json: the dict last dumped to it

vars == << patients, appointments, medical, billing, op, ret, added, pc, frame, rid, menu, viz, dashboard_json >>

\* what the reports write
reportVars == << viz, dashboard_json >>

\* what the calls in progress hold: no call that runs to its end touches it
raceVars == << pc, frame, rid, menu >>

\* no menu function is waiting for input
NoMenu == [at |-> "idle", patient_id |-> None]

Procs == { 1, 2 }

\* the data rows a file holds
RowsIn(file) == IF read_csv_raises(file) THEN 0 ELSE Len(file)

TotalRows == RowsIn(patients) + RowsIn(appointments) + RowsIn(medical) + RowsIn(billing)

(* inputs *)
Names == { << "A", "n", "n" >>, << "B", "o" >> }
Ages == { I(30), S(<< "x" >>) }
Genders == { << "F" >> }
Contacts == { << "0", "7" >>, << "5", "-", "1" >> }
Addresses == { << "1", " ", "S", "t" >> }
Emails == { << >> }
BloodGroups == { << >>, << "A", "+" >> }
PatientIdArgs == { 1001, 1002 }
Doctors == { << "D", "r" >> }
Departments == { << "E", "R" >> }
Dates == { << "2", "0", "2", "4", "-", "0", "1", "-", "1", "5" >>,
           << "2", "0", "2", "4", "-", "0", "1", "-", "1", "6" >> }
Times == { << "1", "0", ":", "0", "0" >> }
Notes == { << >> }
Diagnoses == { << "F", "l", "u" >> }
Words == { << "o", "k" >> }
ServiceTypes == { << "T", "e", "s", "t", "s" >> }
Amounts == { F(150), F(200), S(<< "x" >>) }

\* datetime.now().strftime('%Y-%m-%d'): the days the clock may show
Clock == { << "2", "0", "2", "4", "-", "0", "1", "-", "1", "5" >> }

\* (datetime.now() + timedelta(days=30)).strftime('%Y-%m-%d')
Plus30Days(today) ==
  IF today = << "2", "0", "2", "4", "-", "0", "1", "-", "1", "5" >>
  THEN << "2", "0", "2", "4", "-", "0", "2", "-", "1", "4" >>
  ELSE today

Init ==
  /\ patients = << >>
  /\ appointments = << >>
  /\ medical = << >>
  /\ billing = << >>
  /\ op = [name |-> "init", arg |-> None]
  /\ ret = None
  /\ added = << >>
  /\ pc = [ p \in Procs |-> "idle" ]
  /\ frame = [ p \in Procs |-> << >> ]
  /\ rid = [ p \in Procs |-> None ]
  /\ menu = NoMenu
  /\ viz = << >>
  /\ dashboard_json = None

\* the dict new_patient of add_patient
new_patient(patients_df, name, age, gender, contact, address, email, blood_group, today) ==
  [ patient_id |-> I(_generate_id(patients_df, "patient_id")),
    name |-> S(name),
    age |-> I(PyInt(age).v),
    gender |-> S(gender),
    contact |-> S(PyStr(S(contact))),
    address |-> S(address),
    email |-> S(email),
    registration_date |-> S(today),
    blood_group |-> S(blood_group) ]

\* add_patient with the id taken from a count of the patients ever added
add_patient_counter(name, age, gender, contact, address, email, blood_group, today) ==
  LET patients_df == read_csv(patients)
      row == [ new_patient(patients_df, name, age, gender, contact, address,
                           email, blood_group, today)
               EXCEPT !.patient_id = I(BaseId + Len(added)) ]
  IN /\ TotalRows < MaxRecords
     /\ op' = [name |-> "add_patient", arg |-> age]
     /\ IF ~read_csv_raises(patients) /\ PyInt(age).ok
        THEN /\ patients' = to_csv(concat(patients_df, row))
             /\ ret' = row.patient_id
             /\ added' = Append(added,
                  [ name |-> name, age |-> PyInt(age).v, gender |-> gender,
                    contact |-> contact, address |-> address, email |-> email,
                    blood_group |-> blood_group ])
        ELSE /\ ret' = None
             /\ UNCHANGED << patients, added >>
     /\ UNCHANGED << appointments, medical, billing, raceVars, reportVars >>

add_patient(name, age, gender, contact, address, email, blood_group, today) ==
  LET patients_df == read_csv(patients)
      row == new_patient(patients_df, name, age, gender, contact, address,
                         email, blood_group, today)
  IN /\ TotalRows < MaxRecords
     /\ op' = [name |-> "add_patient", arg |-> age]
     /\ IF ~read_csv_raises(patients) /\ PyInt(age).ok
        THEN /\ patients' = to_csv(concat(patients_df, row))
             /\ ret' = row.patient_id
             /\ added' = Append(added,
                  [ name |-> name, age |-> PyInt(age).v, gender |-> gender,
                    contact |-> contact, address |-> address, email |-> email,
                    blood_group |-> blood_group ])
        ELSE /\ ret' = None
             /\ UNCHANGED << patients, added >>
     /\ UNCHANGED << appointments, medical, billing, raceVars, reportVars >>

AddPatient ==
  \E name \in Names, age \in Ages, gender \in Genders, contact \in Contacts,
     address \in Addresses, email \in Emails, blood_group \in BloodGroups,
     today \in Clock :
       add_patient(name, age, gender, contact, address, email, blood_group, today)

\* ==  between a cell and a Python value (element of  df[col] == x)
PyEq(a, b) ==
  IF a.t \in {"int", "float"} /\ b.t \in {"int", "float"} THEN a.v = b.v
  ELSE IF a.t = "str" /\ b.t = "str" THEN a.v = b.v
  ELSE FALSE

\* df[df[col] == str(x)]: the id compared as text, which no numeric cell equals
filter_eq_text(df, col, x) == SelectSeq(df, LAMBDA r : PyEq(r[col], S(PyStr(x))))

\* df[df[col] == x]
filter_eq(df, col, x) == SelectSeq(df, LAMBDA r : PyEq(r[col], x))

\* new_appointment with the id drawn from the patient frame
new_appointment_shared(appointments_df, patient_data, patient_id, doctor_name, department, appointment_date, appointment_time, notes) ==
  [ appointment_id |-> I(_generate_id(patient_data, "patient_id")),
    patient_id |-> I(patient_id),
    patient_name |-> patient_data[1].name,
    doctor_name |-> S(doctor_name),
    department |-> S(department),
    appointment_date |-> S(appointment_date),
    appointment_time |-> S(appointment_time),
    status |-> S(<< "S", "c", "h", "e", "d", "u", "l", "e", "d" >>),
    notes |-> S(PyStr(S(notes))) ]

\* the dict new_appointment of schedule_appointment
new_appointment(appointments_df, patient_data, patient_id, doctor_name, department, appointment_date, appointment_time, notes) ==
  [ appointment_id |-> I(_generate_id(appointments_df, "appointment_id")),
    patient_id |-> I(patient_id),
    patient_name |-> patient_data[1].name,
    doctor_name |-> S(doctor_name),
    department |-> S(department),
    appointment_date |-> S(appointment_date),
    appointment_time |-> S(appointment_time),
    status |-> S(<< "S", "c", "h", "e", "d", "u", "l", "e", "d" >>),
    notes |-> S(PyStr(S(notes))) ]

\* schedule_appointment that saves the patients frame it loaded as well
schedule_appointment_resaving(patient_id, doctor_name, department, appointment_date, appointment_time, notes) ==
  LET appointments_df == read_csv(appointments)
      patients_df == read_csv(patients)
      patient_data == filter_eq(patients_df, "patient_id", I(patient_id))
  IN /\ TotalRows < MaxRecords
     /\ op' = [name |-> "schedule_appointment", arg |-> I(patient_id),
               date |-> appointment_date]
     /\ IF \/ read_csv_raises(appointments)
           \/ read_csv_raises(patients)
           \/ Len(patient_data) = 0
        THEN /\ ret' = None
             /\ UNCHANGED << appointments, patients >>
        ELSE LET row == new_appointment(appointments_df, patient_data, patient_id,
                          doctor_name, department, appointment_date,
                          appointment_time, notes)
             IN /\ appointments' = to_csv(concat(appointments_df, row))
                /\ patients' = to_csv(patients_df)
                /\ ret' = row.appointment_id
     /\ UNCHANGED << medical, billing, added, raceVars, reportVars >>

schedule_appointment(patient_id, doctor_name, department, appointment_date, appointment_time, notes) ==
  LET appointments_df == read_csv(appointments)
      patients_df == read_csv(patients)
      patient_data == filter_eq(patients_df, "patient_id", I(patient_id))
  IN /\ TotalRows < MaxRecords
     /\ op' = [name |-> "schedule_appointment", arg |-> I(patient_id),
               date |-> appointment_date]
     /\ IF \/ read_csv_raises(appointments)
           \/ read_csv_raises(patients)
           \/ Len(patient_data) = 0
        THEN /\ ret' = None
             /\ UNCHANGED appointments
        ELSE LET row == new_appointment(appointments_df, patient_data, patient_id,
                          doctor_name, department, appointment_date,
                          appointment_time, notes)
             IN /\ appointments' = to_csv(concat(appointments_df, row))
                /\ ret' = row.appointment_id
     /\ UNCHANGED << patients, medical, billing, added, raceVars, reportVars >>

ScheduleAppointment ==
  \E patient_id \in PatientIdArgs, doctor_name \in Doctors, department \in Departments,
     appointment_date \in Dates, appointment_time \in Times, notes \in Notes :
       schedule_appointment(patient_id, doctor_name, department, appointment_date,
                            appointment_time, notes)

\* the dict new_record of add_medical_record
new_record(medical_df, patient_id, symptoms, diagnosis, treatment, medication, tests, notes, today) ==
  [ record_id |-> I(_generate_id(medical_df, "record_id")),
    patient_id |-> I(patient_id),
    visit_date |-> S(today),
    symptoms |-> S(PyStr(S(symptoms))),
    diagnosis |-> S(PyStr(S(diagnosis))),
    treatment |-> S(PyStr(S(treatment))),
    medication |-> S(PyStr(S(medication))),
    tests |-> S(PyStr(S(tests))),
    notes |-> S(PyStr(S(notes))) ]

\* add_medical_record that starts a new file when the old one cannot be read
add_medical_record_fresh(patient_id, symptoms, diagnosis, treatment, medication, tests, notes, today) ==
  LET medical_df == IF read_csv_raises(medical) THEN << >> ELSE read_csv(medical)
      row == new_record(medical_df, patient_id, symptoms, diagnosis, treatment,
                        medication, tests, notes, today)
  IN /\ TotalRows < MaxRecords
     /\ op' = [name |-> "add_medical_record", arg |-> I(patient_id)]
     /\ medical' = to_csv(concat(medical_df, row))
     /\ ret' = row.record_id
     /\ UNCHANGED << patients, appointments, billing, added, raceVars, reportVars >>

add_medical_record(patient_id, symptoms, diagnosis, treatment, medication, tests, notes, today) ==
  LET medical_df == read_csv(medical)
      row == new_record(medical_df, patient_id, symptoms, diagnosis, treatment,
                        medication, tests, notes, today)
  IN /\ TotalRows < MaxRecords
     /\ op' = [name |-> "add_medical_record", arg |-> I(patient_id)]
     /\ IF read_csv_raises(medical)
        THEN /\ ret' = None
             /\ UNCHANGED medical
        ELSE /\ medical' = to_csv(concat(medical_df, row))
             /\ ret' = row.record_id
     /\ UNCHANGED << patients, appointments, billing, added, raceVars, reportVars >>

AddMedicalRecord ==
  \E patient_id \in PatientIdArgs, symptoms \in Words, diagnosis \in Diagnoses,
     treatment \in Words, medication \in Words, tests \in Words, notes \in Notes,
     today \in Clock :
       add_medical_record(patient_id, symptoms, diagnosis, treatment, medication,
                          tests, notes, today)

\* new_bill for a bill paid on the spot
new_bill_paid(billing_df, patient_data, patient_id, service_type, description, amount, today) ==
  [ bill_id |-> I(_generate_id(billing_df, "bill_id")),
    patient_id |-> I(patient_id),
    patient_name |-> patient_data[1].name,
    bill_date |-> S(today),
    service_type |-> S(service_type),
    description |-> S(description),
    amount |-> F(PyFloat(amount).v),
    status |-> S(<< "P", "a", "i", "d" >>),
    due_date |-> S(Plus30Days(today)) ]

\* the dict new_bill of generate_bill
new_bill(billing_df, patient_data, patient_id, service_type, description, amount, today) ==
  [ bill_id |-> I(_generate_id(billing_df, "bill_id")),
    patient_id |-> I(patient_id),
    patient_name |-> patient_data[1].name,
    bill_date |-> S(today),
    service_type |-> S(service_type),
    description |-> S(description),
    amount |-> F(PyFloat(amount).v),
    status |-> S(<< "P", "e", "n", "d", "i", "n", "g" >>),
    due_date |-> S(Plus30Days(today)) ]

\* generate_bill that writes the row under its new id before it converts the
\* amount, so that a call failing on the amount leaves the row behind
generate_bill_reserving(patient_id, service_type, description, amount, today) ==
  LET billing_df == read_csv(billing)
      patients_df == read_csv(patients)
      patient_data == filter_eq(patients_df, "patient_id", I(patient_id))
      row == [ new_bill(billing_df, patient_data, patient_id, service_type,
                        description, amount, today)
               EXCEPT !.amount = IF PyFloat(amount).ok THEN F(PyFloat(amount).v) ELSE amount ]
  IN /\ TotalRows < MaxRecords
     /\ op' = [name |-> "generate_bill", arg |-> I(patient_id), amount |-> amount]
     /\ IF \/ read_csv_raises(billing)
           \/ read_csv_raises(patients)
           \/ Len(patient_data) = 0
        THEN /\ ret' = None
             /\ UNCHANGED billing
        ELSE /\ billing' = to_csv(concat(billing_df, row))
             /\ ret' = IF PyFloat(amount).ok THEN row.bill_id ELSE None
     /\ UNCHANGED << patients, appointments, medical, added, raceVars, reportVars >>

\* generate_bill that stores the amount as it was passed, without float()
generate_bill_unchecked(patient_id, service_type, description, amount, today) ==
  LET billing_df == read_csv(billing)
      patients_df == read_csv(patients)
      patient_data == filter_eq(patients_df, "patient_id", I(patient_id))
  IN /\ TotalRows < MaxRecords
     /\ op' = [name |-> "generate_bill", arg |-> I(patient_id), amount |-> amount]
     /\ IF \/ read_csv_raises(billing)
           \/ read_csv_raises(patients)
           \/ Len(patient_data) = 0
        THEN /\ ret' = None
             /\ UNCHANGED billing
        ELSE LET row == [ new_bill(billing_df, patient_data, patient_id, service_type,
                                   description, amount, today)
                          EXCEPT !.amount = amount ]
             IN /\ billing' = to_csv(concat(billing_df, row))
                /\ ret' = row.bill_id
     /\ UNCHANGED << patients, appointments, medical, added, raceVars, reportVars >>

generate_bill(patient_id, service_type, description, amount, today) ==
  LET billing_df == read_csv(billing)
      patients_df == read_csv(patients)
      patient_data == filter_eq(patients_df, "patient_id", I(patient_id))
  IN /\ TotalRows < MaxRecords
     /\ op' = [name |-> "generate_bill", arg |-> I(patient_id), amount |-> amount]
     /\ IF \/ read_csv_raises(billing)
           \/ read_csv_raises(patients)
           \/ Len(patient_data) = 0
           \/ ~PyFloat(amount).ok
        THEN /\ ret' = None
             /\ UNCHANGED billing
        ELSE LET row == new_bill(billing_df, patient_data, patient_id, service_type,
                                 description, amount, today)
             IN /\ billing' = to_csv(concat(billing_df, row))
                /\ ret' = row.bill_id
     /\ UNCHANGED << patients, appointments, medical, added, raceVars, reportVars >>

GenerateBill ==
  \E patient_id \in PatientIdArgs, service_type \in ServiceTypes, description \in Words,
     amount \in Amounts, today \in Clock :
       generate_bill(patient_id, service_type, description, amount, today)

\* one pattern character against one character of the subject (re): "."
\* matches any character, any other pattern character here is a literal
regex_char(p, c, ignorecase) ==
  \/ p = "."
  \/ IF ignorecase THEN Lower(p) = Lower(c) ELSE p = c

\* Series.str.contains(pat, case=...) for one cell: re.search of pat, a regular
\* expression, in the text.  Patterns are made of literals and "."
str_contains(text, pat, ignorecase) ==
  \E start \in 0..(Len(text) - Len(pat)) :
     \A j \in 1..Len(pat) : regex_char(pat[j], text[start + j], ignorecase)

\* the boolean mask of search_patients for one row
search_mask(r, search_term) ==
  \/ str_contains(PyStr(r.name), PyStr(S(search_term)), TRUE)
  \/ str_contains(PyStr(r.patient_id), PyStr(S(search_term)), FALSE)

SearchTerms ==
  { << >>, << "a", "N" >>, << "B" >>, << "0", "2" >>, << "." >>, << "7" >> }

get_all_patients ==
  /\ op' = [name |-> "get_all_patients", arg |-> None]
  /\ ret' = IF read_csv_raises(patients) THEN DF(<< >>)
            ELSE DF(fillna(read_csv(patients)))
  /\ UNCHANGED << patients, appointments, medical, billing, added, raceVars, reportVars >>

search_patients(search_term) ==
  LET patients_df == read_csv(patients) IN
  /\ op' = [name |-> "search_patients", arg |-> S(search_term)]
  /\ ret' = IF read_csv_raises(patients) THEN DF(<< >>)
            ELSE IF Len(patients_df) = 0 THEN DF(patients_df)
            ELSE DF(fillna(SelectSeq(patients_df, LAMBDA r : search_mask(r, search_term))))
  /\ UNCHANGED << patients, appointments, medical, billing, added, raceVars, reportVars >>

SearchPatients == \E search_term \in SearchTerms : search_patients(search_term)

get_patient_by_id(patient_id) ==
  LET patients_df == read_csv(patients) IN
  /\ op' = [name |-> "get_patient_by_id", arg |-> I(patient_id)]
  /\ ret' = IF read_csv_raises(patients) THEN DF(<< >>)
            ELSE DF(fillna(filter_eq(patients_df, "patient_id", I(patient_id))))
  /\ UNCHANGED << patients, appointments, medical, billing, added, raceVars, reportVars >>

GetPatientById == \E patient_id \in PatientIdArgs : get_patient_by_id(patient_id)

(* ----------------------------- aggregates ------------------------------ *)

\* a dict
Dict(r) == [t |-> "dict", v |-> r]

IsNumber(val) == val.t \in {"int", "float"}

RECURSIVE SumOf(_)
SumOf(col) == IF Len(col) = 0 THEN 0 ELSE col[1].v + SumOf(Tail(col))

RECURSIVE ConcatOf(_)
ConcatOf(col) == IF Len(col) = 0 THEN << >> ELSE col[1].v \o ConcatOf(Tail(col))

\* Series.sum(): numbers are added (an int64 column gives an int), the strings
\* of an object column are joined; ok is FALSE where pandas raises (a number
\* and a string to add)
series_sum(col) ==
  IF \A i \in DOMAIN col : IsNumber(col[i])
  THEN [ok |-> TRUE,
        v |-> IF \E i \in DOMAIN col : col[i].t = "float" THEN F(SumOf(col))
              ELSE I(SumOf(col))]
  ELSE IF \A i \in DOMAIN col : col[i].t = "str"
       THEN [ok |-> TRUE, v |-> S(ConcatOf(col))]
       ELSE [ok |-> FALSE, v |-> None]

\* float(Series.sum())
float_sum(col) ==
  IF series_sum(col).ok THEN PyFloat(series_sum(col).v) ELSE [ok |-> FALSE, v |-> 0]

\* the frame get_all_patients returns
all_patients ==
  IF read_csv_raises(patients) THEN << >> ELSE fillna(read_csv(patients))

\* get_all_appointments()
get_all_appointments ==
  IF read_csv_raises(appointments) THEN << >> ELSE fillna(read_csv(appointments))

\* get_all_bills()
get_all_bills ==
  IF read_csv_raises(billing) THEN << >> ELSE fillna(read_csv(billing))

\* datetime.now().strftime('%Y-%m-%d %H:%M:%S'): the times the clock may show
Stamps == { << "2", "0", "2", "4", "-", "0", "1", "-", "1", "5", " ", "0", "9", ":", "0", "0", ":", "0", "0" >>, << "2", "0", "2", "4", "-", "0", "1", "-", "1", "5", " ", "0", "9", ":", "0", "0", ":", "0", "1" >> }

\* get_system_stats with the revenue of the pending bills only
get_system_stats_pending(now) ==
  LET bills == get_all_bills
      revenue == float_sum(Column(filter_eq(bills, "status", S(<< "P", "e", "n", "d", "i", "n", "g" >>)), "amount"))
  IN
  /\ op' = [name |-> "get_system_stats", arg |-> None]
  /\ ret' = IF read_csv_raises(medical) \/ (Len(bills) > 0 /\ ~revenue.ok)
            THEN Dict(<< >>)
            ELSE Dict([ total_patients |-> I(Len(all_patients)),
                        total_appointments |-> I(Len(get_all_appointments)),
                        total_medical_records |-> I(Len(read_csv(medical))),
                        total_bills |-> I(Len(bills)),
                        total_revenue |-> IF Len(bills) > 0 THEN F(revenue.v) ELSE I(0),
                        timestamp |-> S(now) ])
  /\ UNCHANGED << patients, appointments, medical, billing, added, raceVars, reportVars >>

get_system_stats(now) ==
  LET bills == get_all_bills
      revenue == float_sum(Column(bills, "amount"))
  IN
  /\ op' = [name |-> "get_system_stats", arg |-> None]
  /\ ret' = IF read_csv_raises(medical) \/ (Len(bills) > 0 /\ ~revenue.ok)
            THEN Dict(<< >>)
            ELSE Dict([ total_patients |-> I(Len(all_patients)),
                        total_appointments |-> I(Len(get_all_appointments)),
                        total_medical_records |-> I(Len(read_csv(medical))),
                        total_bills |-> I(Len(bills)),
                        total_revenue |-> IF Len(bills) > 0 THEN F(revenue.v) ELSE I(0),
                        timestamp |-> S(now) ])
  /\ UNCHANGED << patients, appointments, medical, billing, added, raceVars, reportVars >>

\* the clock of one run
GetSystemStats == get_system_stats(<< "2", "0", "2", "4", "-", "0", "1", "-", "1", "5", " ", "0", "9", ":", "0", "0", ":", "0", "0" >>)

\* the action of get_all_appointments
GetAllAppointments ==
  /\ op' = [name |-> "get_all_appointments", arg |-> None]
  /\ ret' = DF(get_all_appointments)
  /\ UNCHANGED << patients, appointments, medical, billing, added, raceVars, reportVars >>

get_appointments_by_date(date) ==
  LET appointments_df == read_csv(appointments) IN
  /\ op' = [name |-> "get_appointments_by_date", arg |-> S(date)]
  /\ ret' = IF read_csv_raises(appointments) THEN DF(<< >>)
            ELSE IF Len(appointments_df) = 0 THEN DF(appointments_df)
            ELSE DF(fillna(filter_eq(appointments_df, "appointment_date", S(date))))
  /\ UNCHANGED << patients, appointments, medical, billing, added, raceVars, reportVars >>

GetAppointmentsByDate == \E date \in Dates : get_appointments_by_date(date)

\* get_patient_medical_history that returns the first record found only
get_patient_medical_history_first(patient_id) ==
  LET medical_df == read_csv(medical)
      found == filter_eq(medical_df, "patient_id", I(patient_id))
  IN
  /\ op' = [name |-> "get_patient_medical_history", arg |-> I(patient_id)]
  /\ ret' = IF read_csv_raises(medical) THEN DF(<< >>)
            ELSE IF Len(medical_df) = 0 THEN DF(medical_df)
            ELSE DF(fillna(SubSeq(found, 1, IF Len(found) > 0 THEN 1 ELSE 0)))
  /\ UNCHANGED << patients, appointments, medical, billing, added, raceVars, reportVars >>

get_patient_medical_history(patient_id) ==
  LET medical_df == read_csv(medical) IN
  /\ op' = [name |-> "get_patient_medical_history", arg |-> I(patient_id)]
  /\ ret' = IF read_csv_raises(medical) THEN DF(<< >>)
            ELSE IF Len(medical_df) = 0 THEN DF(medical_df)
            ELSE DF(fillna(filter_eq(medical_df, "patient_id", I(patient_id))))
  /\ UNCHANGED << patients, appointments, medical, billing, added, raceVars, reportVars >>

GetPatientMedicalHistory ==
  \E patient_id \in PatientIdArgs : get_patient_medical_history(patient_id)

\* get_patient_bills that saves the bills it selected as the billing file
get_patient_bills_saving(patient_id) ==
  LET billing_df == read_csv(billing) IN
  /\ op' = [name |-> "get_patient_bills", arg |-> I(patient_id)]
  /\ ret' = IF read_csv_raises(billing) THEN DF(<< >>)
            ELSE IF Len(billing_df) = 0 THEN DF(billing_df)
            ELSE DF(fillna(filter_eq(billing_df, "patient_id", I(patient_id))))
  /\ billing' = IF read_csv_raises(billing) THEN billing
                ELSE to_csv(filter_eq(billing_df, "patient_id", I(patient_id)))
  /\ UNCHANGED << patients, appointments, medical, added, raceVars, reportVars >>

get_patient_bills(patient_id) ==
  LET billing_df == read_csv(billing) IN
  /\ op' = [name |-> "get_patient_bills", arg |-> I(patient_id)]
  /\ ret' = IF read_csv_raises(billing) THEN DF(<< >>)
            ELSE IF Len(billing_df) = 0 THEN DF(billing_df)
            ELSE DF(fillna(filter_eq(billing_df, "patient_id", I(patient_id))))
  /\ UNCHANGED << patients, appointments, medical, billing, added, raceVars, reportVars >>

GetPatientBills == \E patient_id \in PatientIdArgs : get_patient_bills(patient_id)

\* the action of get_all_bills
GetAllBills ==
  /\ op' = [name |-> "get_all_bills", arg |-> None]
  /\ ret' = DF(get_all_bills)
  /\ UNCHANGED << patients, appointments, medical, billing, added, raceVars, reportVars >>

\* Python's True and False
True == [t |-> "bool", v |-> TRUE]
False == [t |-> "bool", v |-> FALSE]

\* export_data_to_json(): the dict it writes to hospital_data.json, a file no
\* operation reads, is kept with the call
export_data_to_json(now) ==
  /\ op' = IF read_csv_raises(medical) \/ read_csv_raises(billing)
           THEN [name |-> "export_data_to_json", arg |-> None]
           ELSE [name |-> "export_data_to_json", arg |-> None,
                 data |-> [ patients |-> fillna(all_patients),
                            appointments |-> fillna(get_all_appointments),
                            medical_records |-> fillna(read_csv(medical)),
                            billing |-> fillna(read_csv(billing)),
                            export_date |-> S(now) ]]
  /\ ret' = IF read_csv_raises(medical) \/ read_csv_raises(billing) THEN False ELSE True
  /\ UNCHANGED << patients, appointments, medical, billing, added, raceVars, reportVars >>

ExportDataToJson == \E now \in Stamps : export_data_to_json(now)

(* ----------------------------- HospitalAnalytics ----------------------- *)
(* The charts a generator draws and writes to the visualizations folder    *)
(* take no part in the statistics it returns and are left out.             *)

\* a float: n / d  (whole where d divides n, else its floor and the rest)
Quot(n, d) ==
  IF n % d = 0 THEN F(n \div d)
  ELSE [t |-> "float", v |-> n \div d, num |-> n % d, den |-> d]

\* str(e) of the exception a generator catches: the wording is that of the
\* library and stands here as one text
str_e == << "e", "x", "c", "e", "p", "t", "i", "o", "n" >>

\* the order groupby and mode sort their keys in
KeyLess(a, b) ==
  IF a.t = "str" /\ b.t = "str" THEN TextLess(a.v, b.v)
  ELSE IF IsNumber(a) /\ IsNumber(b) THEN a.v < b.v
  ELSE IsNumber(a) /\ b.t = "str"

\* the distinct values of a column
KeysOf(col) == { col[i] : i \in DOMAIN col }

\* df.groupby(by)[col].sum(): one sum for each key
groupby_sum(df, by, col) ==
  [ k \in KeysOf(Column(df, by)) |-> SumOf(Column(SelectSeq(df, LAMBDA r : r[by] = k), col)) ]

\* Series.idxmax() of a grouped sum: the first key, in key order, of the largest sum
idxmax(sums) ==
  CHOOSE k \in DOMAIN sums :
    \A j \in DOMAIN sums : sums[j] < sums[k] \/ (sums[j] = sums[k] /\ ~KeyLess(j, k))

\* the calls of a report in a row, this one included: 1, or 2 for more
Nth(name) == I(IF op.name = name THEN 2 ELSE 1)

\* how often a value occurs in a column
CountOf(col, k) == Cardinality({ i \in DOMAIN col : col[i] = k })

\* where a value occurs first
FirstAt(col, k) == CHOOSE i \in DOMAIN col : col[i] = k /\ \A j \in 1..(i - 1) : col[j] # k

\* Series.value_counts(): the count of each value that is not NaN
value_counts(col) ==
  [ k \in { v \in KeysOf(col) : v.t # "nan" } |-> CountOf(col, k) ]

\* the index of value_counts(): most frequent first, equal counts in the order
\* the values first occur (the sort is stable on the few values held here)
counts_index(col) ==
  LET keys == DOMAIN value_counts(col)
      before(a, b) ==
        \/ CountOf(col, a) > CountOf(col, b)
        \/ CountOf(col, a) = CountOf(col, b) /\ FirstAt(col, a) < FirstAt(col, b)
  IN [ r \in 1..Cardinality(keys) |->
         CHOOSE k \in keys : Cardinality({ j \in keys : before(j, k) }) = r - 1 ]

\* Series.head(n)
head(seq, n) == SubSeq(seq, 1, IF Len(seq) < n THEN Len(seq) ELSE n)

\* the counts of a column as a Series of the given index: the pairs of a value
\* and its count, in index order
counts_items(index, col) == [ r \in DOMAIN index |-> << index[r], I(CountOf(col, index[r])) >> ]

\* counts.to_dict() with the values made Python ints: a dict keeps its keys in
\* the order they went in, which is that of the index, so it is held as the
\* sequence of its items
to_dict(index, col) == counts_items(index, col)

\* dict.get(key, default) of a dict of fixed keys
get(d, key, default) == IF key \in DOMAIN d.v THEN d.v[key] ELSE default

\* fig.write_html for each chart of a sequence, in order: a file of the
\* visualizations folder is created or replaced
write_html(charts) ==
  [ f \in { charts[i].file : i \in DOMAIN charts } \cup DOMAIN viz |->
      IF \E i \in DOMAIN charts : charts[i].file = f
      THEN charts[CHOOSE i \in DOMAIN charts :
                    charts[i].file = f /\ \A j \in DOMAIN charts : charts[j].file = f => j <= i].data
      ELSE viz[f] ]

\* the keys of a groupby in the order of its result
sorted_keys(col) ==
  [ r \in 1..Cardinality(KeysOf(col)) |->
      CHOOSE k \in KeysOf(col) : Cardinality({ j \in KeysOf(col) : KeyLess(j, k) }) = r - 1 ]

\* Series.min(), Series.max() of a column of numbers
series_min(col) == col[CHOOSE i \in DOMAIN col : \A j \in DOMAIN col : col[i].v <= col[j].v]

\* Series.mode().iloc[0]: the smallest of the most frequent values
mode_first(col) ==
  LET top == { k \in KeysOf(col) : \A j \in KeysOf(col) : CountOf(col, j) <= CountOf(col, k) }
  IN CHOOSE k \in top : \A j \in top : ~KeyLess(j, k)

\* generate_patient_statistics(): the dict it returns
generate_patient_statistics ==
  LET patients_df == all_patients
      age == Column(patients_df, "age")
      gender == Column(patients_df, "gender")
  IN IF Len(patients_df) = 0
     THEN Dict([ error |-> S(<< "N", "o", " ", "p", "a", "t", "i", "e", "n", "t", " ", "d", "a", "t", "a", " ", "a", "v", "a", "i", "l", "a", "b", "l", "e" >>), total_patients |-> I(0) ])
     ELSE IF \E i \in DOMAIN age : ~IsNumber(age[i])
     THEN Dict([ error |-> S(str_e) ])
     ELSE Dict([ total_patients |-> I(Len(patients_df)),
                 average_age |-> Quot(SumOf(age), Len(age)),
                 min_age |-> I(series_min(age).v),
                 max_age |-> I(series_max(age).v),
                 gender_distribution |-> to_dict(counts_index(gender), gender),
                 most_common_blood_group |->
                   S(PyStr(mode_first(Column(patients_df, "blood_group")))) ])

\* the charts generate_patient_statistics writes before it computes its dict
\* (lines 61-101), each with the data it is drawn from; after fillna no count
\* is empty, and plotting is taken not to raise
patient_charts ==
  LET patients_df == all_patients IN
  IF Len(patients_df) = 0 THEN << >>
  ELSE << [file |-> "gender_distribution.html",
           data |-> counts_items(counts_index(Column(patients_df, "gender")), Column(patients_df, "gender"))],
          [file |-> "age_distribution.html", data |-> Column(patients_df, "age")],
          [file |-> "blood_group_distribution.html",
           data |-> counts_items(counts_index(Column(patients_df, "blood_group")), Column(patients_df, "blood_group"))] >>

GeneratePatientStatistics ==
  /\ op' = [name |-> "generate_patient_statistics", arg |-> Nth("generate_patient_statistics")]
  /\ ret' = generate_patient_statistics
  /\ viz' = write_html(patient_charts)
  /\ UNCHANGED << patients, appointments, medical, billing, added, raceVars, dashboard_json >>

\* generate_appointment_analytics(): the dict it returns
generate_appointment_analytics ==
  LET appointments_df == get_all_appointments
      department == Column(appointments_df, "department")
      dept_counts == counts_index(department)
  IN IF Len(appointments_df) = 0
     THEN Dict([ error |-> S(<< "N", "o", " ", "a", "p", "p", "o", "i", "n", "t", "m", "e", "n", "t", " ", "d", "a", "t", "a", " ", "a", "v", "a", "i", "l", "a", "b", "l", "e" >>), total_appointments |-> I(0) ])
     ELSE Dict([ total_appointments |-> I(Len(appointments_df)),
                 scheduled_appointments |->
                   I(Len(filter_eq(appointments_df, "status", S(<< "S", "c", "h", "e", "d", "u", "l", "e", "d" >>)))),
                 completed_appointments |->
                   I(Len(filter_eq(appointments_df, "status", S(<< "C", "o", "m", "p", "l", "e", "t", "e", "d" >>)))),
                 department_distribution |-> to_dict(dept_counts, department),
                 top_department |-> S(PyStr(dept_counts[1])) ])

\* the charts generate_appointment_analytics writes (lines 135-161)
appointment_charts ==
  LET appointments_df == get_all_appointments IN
  IF Len(appointments_df) = 0 THEN << >>
  ELSE << [file |-> "appointment_status.html",
           data |-> counts_items(counts_index(Column(appointments_df, "status")), Column(appointments_df, "status"))],
          [file |-> "department_appointments.html",
           data |-> counts_items(counts_index(Column(appointments_df, "department")), Column(appointments_df, "department"))] >>

GenerateAppointmentAnalytics ==
  /\ op' = [name |-> "generate_appointment_analytics", arg |-> Nth("generate_appointment_analytics")]
  /\ ret' = generate_appointment_analytics
  /\ viz' = write_html(appointment_charts)
  /\ UNCHANGED << patients, appointments, medical, billing, added, raceVars, dashboard_json >>

\* generate_financial_reports with the paid amount summed over all bills
generate_financial_reports_allpaid ==
  LET billing_df == get_all_bills
      amount == Column(billing_df, "amount")
  IN IF Len(billing_df) = 0
     THEN Dict([ error |-> S(<< "N", "o", " ", "b", "i", "l", "l", "i", "n", "g", " ", "d", "a", "t", "a", " ", "a", "v", "a", "i", "l", "a", "b", "l", "e" >>), total_revenue |-> I(0) ])
     ELSE IF \E i \in DOMAIN amount : ~IsNumber(amount[i])
     THEN Dict([ error |-> S(str_e) ])
     ELSE Dict([ total_revenue |-> F(SumOf(amount)),
                 total_bills |-> I(Len(billing_df)),
                 pending_amount |->
                   F(SumOf(Column(filter_eq(billing_df, "status", S(<< "P", "e", "n", "d", "i", "n", "g" >>)), "amount"))),
                 paid_amount |-> F(SumOf(amount)),
                 average_bill_amount |-> Quot(SumOf(amount), Len(billing_df)),
                 most_profitable_service |->
                   S(PyStr(idxmax(groupby_sum(billing_df, "service_type", "amount")))) ])

\* generate_financial_reports(): the dict it returns
generate_financial_reports ==
  LET billing_df == get_all_bills
      amount == Column(billing_df, "amount")
  IN IF Len(billing_df) = 0
     THEN Dict([ error |-> S(<< "N", "o", " ", "b", "i", "l", "l", "i", "n", "g", " ", "d", "a", "t", "a", " ", "a", "v", "a", "i", "l", "a", "b", "l", "e" >>), total_revenue |-> I(0) ])
     ELSE IF \E i \in DOMAIN amount : ~IsNumber(amount[i])
     THEN Dict([ error |-> S(str_e) ])
     ELSE Dict([ total_revenue |-> F(SumOf(amount)),
                 total_bills |-> I(Len(billing_df)),
                 pending_amount |->
                   F(SumOf(Column(filter_eq(billing_df, "status", S(<< "P", "e", "n", "d", "i", "n", "g" >>)), "amount"))),
                 paid_amount |->
                   F(SumOf(Column(filter_eq(billing_df, "status", S(<< "P", "a", "i", "d" >>)), "amount"))),
                 average_bill_amount |-> Quot(SumOf(amount), Len(billing_df)),
                 most_profitable_service |->
                   S(PyStr(idxmax(groupby_sum(billing_df, "service_type", "amount")))) ])

\* the charts generate_financial_reports writes (lines 194-220): the sums of
\* the amounts by service type, in key order, and the counts of the statuses;
\* none is written when the sum of a group raises
financial_charts ==
  LET billing_df == get_all_bills
      keys == sorted_keys(Column(billing_df, "service_type"))
      revenue(k) == series_sum(Column(SelectSeq(billing_df, LAMBDA r : r.service_type = k), "amount"))
  IN IF Len(billing_df) = 0 THEN << >>
     ELSE IF \E r \in DOMAIN keys : ~revenue(keys[r]).ok THEN << >>
     ELSE << [file |-> "revenue_by_service.html",
              data |-> [ r \in DOMAIN keys |-> << keys[r], revenue(keys[r]).v >> ]],
             [file |-> "payment_status.html",
              data |-> counts_items(counts_index(Column(billing_df, "status")), Column(billing_df, "status"))] >>

GenerateFinancialReports ==
  /\ op' = [name |-> "generate_financial_reports", arg |-> Nth("generate_financial_reports")]
  /\ ret' = generate_financial_reports
  /\ viz' = write_html(financial_charts)
  /\ UNCHANGED << patients, appointments, medical, billing, added, raceVars, dashboard_json >>

\* generate_medical_analytics whose dict holds all of the 10 diagnoses charted
generate_medical_analytics_charted ==
  LET medical_df == read_csv(medical)
      diagnosis == Column(medical_df, "diagnosis")
      diagnosis_counts == head(counts_index(diagnosis), 10)
  IN IF ~exists(medical)
     THEN Dict([ error |-> S(<< "N", "o", " ", "m", "e", "d", "i", "c", "a", "l", " ", "r", "e", "c", "o", "r", "d", "s", " ", "d", "a", "t", "a", " ", "a", "v", "a", "i", "l", "a", "b", "l", "e" >>),
                 total_medical_records |-> I(0) ])
     ELSE IF read_csv_raises(medical)
     THEN Dict([ error |-> S(str_e) ])
     ELSE IF Len(medical_df) = 0
     THEN Dict([ error |-> S(<< "N", "o", " ", "m", "e", "d", "i", "c", "a", "l", " ", "r", "e", "c", "o", "r", "d", "s", " ", "d", "a", "t", "a", " ", "a", "v", "a", "i", "l", "a", "b", "l", "e" >>),
                 total_medical_records |-> I(0) ])
     ELSE Dict([ total_medical_records |-> I(Len(medical_df)),
                 diagnosis_distribution |-> to_dict(diagnosis_counts, diagnosis),
                 most_common_diagnosis |->
                   IF Len(diagnosis_counts) > 0 THEN S(PyStr(diagnosis_counts[1]))
                   ELSE S(<< "N", "/", "A" >>) ])

\* generate_medical_analytics(): the dict it returns
generate_medical_analytics ==
  LET medical_df == read_csv(medical)
      diagnosis == Column(medical_df, "diagnosis")
      diagnosis_counts == head(counts_index(diagnosis), 10)
  IN IF ~exists(medical)
     THEN Dict([ error |-> S(<< "N", "o", " ", "m", "e", "d", "i", "c", "a", "l", " ", "r", "e", "c", "o", "r", "d", "s", " ", "d", "a", "t", "a", " ", "a", "v", "a", "i", "l", "a", "b", "l", "e" >>),
                 total_medical_records |-> I(0) ])
     ELSE IF read_csv_raises(medical)
     THEN Dict([ error |-> S(str_e) ])
     ELSE IF Len(medical_df) = 0
     THEN Dict([ error |-> S(<< "N", "o", " ", "m", "e", "d", "i", "c", "a", "l", " ", "r", "e", "c", "o", "r", "d", "s", " ", "d", "a", "t", "a", " ", "a", "v", "a", "i", "l", "a", "b", "l", "e" >>),
                 total_medical_records |-> I(0) ])
     ELSE Dict([ total_medical_records |-> I(Len(medical_df)),
                 diagnosis_distribution |-> to_dict(head(diagnosis_counts, 5), diagnosis),
                 most_common_diagnosis |->
                   IF Len(diagnosis_counts) > 0 THEN S(PyStr(diagnosis_counts[1]))
                   ELSE S(<< "N", "/", "A" >>) ])

\* the chart generate_medical_analytics writes (lines 261-274): the counts of
\* value_counts().head(10), when a record holds a diagnosis
medical_charts ==
  LET medical_df == read_csv(medical)
      diagnosis == Column(medical_df, "diagnosis")
      diagnosis_counts == head(counts_index(diagnosis), 10)
  IN IF ~exists(medical) \/ read_csv_raises(medical) THEN << >>
     ELSE IF Len(medical_df) = 0 \/ Len(diagnosis_counts) = 0 THEN << >>
     ELSE << [file |-> "common_diagnoses.html", data |-> counts_items(diagnosis_counts, diagnosis)] >>

GenerateMedicalAnalytics ==
  /\ op' = [name |-> "generate_medical_analytics", arg |-> Nth("generate_medical_analytics")]
  /\ ret' = generate_medical_analytics
  /\ viz' = write_html(medical_charts)
  /\ UNCHANGED << patients, appointments, medical, billing, added, raceVars, dashboard_json >>

\* generate_dashboard_summary that gives up when a report holds an error
generate_dashboard_summary_failfast(now) ==
  IF \E r \in { generate_patient_statistics, generate_appointment_analytics,
                generate_financial_reports, generate_medical_analytics } :
        "error" \in DOMAIN r.v
  THEN Dict([ error |-> S(str_e) ])
  ELSE Dict([ patient_stats |-> generate_patient_statistics,
              appointment_stats |-> generate_appointment_analytics,
              financial_stats |-> generate_financial_reports,
              medical_stats |-> generate_medical_analytics,
              timestamp |-> S(now) ])

\* generate_dashboard_summary that tells how many chart files it found in
\* the visualizations folder, as generate_all_reports counts them
generate_dashboard_summary_counted(now) ==
  Dict([ patient_stats |-> generate_patient_statistics,
         appointment_stats |-> generate_appointment_analytics,
         financial_stats |-> generate_financial_reports,
         medical_stats |-> generate_medical_analytics,
         charts_found |-> I(Cardinality(DOMAIN viz)),
         timestamp |-> S(now) ])

\* generate_dashboard_summary(): the dict it returns
generate_dashboard_summary(now) ==
  Dict([ patient_stats |-> generate_patient_statistics,
         appointment_stats |-> generate_appointment_analytics,
         financial_stats |-> generate_financial_reports,
         medical_stats |-> generate_medical_analytics,
         timestamp |-> S(now) ])

\* the summary chart of generate_dashboard_summary (lines 313-333), drawn from
\* the four reports it has just taken and written when one of its four values
\* is above 0
summary_charts ==
  LET summary_stats ==
        << << S(<< "T", "o", "t", "a", "l", " ", "P", "a", "t", "i", "e", "n", "t", "s" >>), get(generate_patient_statistics, "total_patients", I(0)) >>,
           << S(<< "T", "o", "t", "a", "l", " ", "A", "p", "p", "o", "i", "n", "t", "m", "e", "n", "t", "s" >>), get(generate_appointment_analytics, "total_appointments", I(0)) >>,
           << S(<< "T", "o", "t", "a", "l", " ", "R", "e", "v", "e", "n", "u", "e" >>), get(generate_financial_reports, "total_revenue", I(0)) >>,
           << S(<< "P", "e", "n", "d", "i", "n", "g", " ", "B", "i", "l", "l", "s" >>), get(generate_financial_reports, "pending_amount", I(0)) >> >>
  IN IF \E i \in DOMAIN summary_stats : summary_stats[i][2].v > 0
     THEN << [file |-> "system_overview.html", data |-> summary_stats] >>
     ELSE << >>

\* the four reports with the charts each writes, the summary chart, and the
\* dict dumped to dashboard_data.json and returned
GenerateDashboardSummary ==
  \E now \in Stamps :
    /\ op' = [name |-> "generate_dashboard_summary", arg |-> Nth("generate_dashboard_summary")]
    /\ ret' = generate_dashboard_summary(now)
    /\ viz' = write_html(patient_charts \o appointment_charts \o financial_charts \o medical_charts
                         \o summary_charts)
    /\ dashboard_json' = generate_dashboard_summary(now)
    /\ UNCHANGED << patients, appointments, medical, billing, added, raceVars >>

Next ==
  \/ AddPatient
  \/ ScheduleAppointment
  \/ AddMedicalRecord
  \/ GenerateBill
  \/ get_all_patients
  \/ SearchPatients
  \/ GetPatientById

Spec == Init /\ [][Next]_vars

(* ------------- _generate_id on any content of the id column ------------ *)

\* Rows of the file handed to _generate_id.
MaxIdRows == 3

\* what an id cell may hold: nothing, a text that is no number, an integer
IdCells == { << >>, << "x" >>, << "1", "0", "0", "1" >>, << "1", "0", "0", "2" >> }

IdRow(cell) ==
  [ patient_id |-> cell, name |-> << "A", "n", "n" >>, age |-> << "3", "0" >>,
    gender |-> << "F" >>, contact |-> << "5", "-", "1" >>,
    address |-> << "1", " ", "S", "t" >>, email |-> << >>,
    registration_date |-> << "2", "0", "2", "4", "-", "0", "1", "-", "1", "5" >>,
    blood_group |-> << >> ]

IdFiles ==
  UNION { { [ i \in 1..n |-> IdRow(cells[i]) ] : cells \in [ 1..n -> IdCells ] } :
          n \in 0..MaxIdRows }

InitGen ==
  /\ patients \in IdFiles
  /\ appointments = << >>
  /\ medical = << >>
  /\ billing = << >>
  /\ op = [name |-> "init", arg |-> None]
  /\ ret = None
  /\ added = << >>
  /\ pc = [ p \in Procs |-> "idle" ]
  /\ frame = [ p \in Procs |-> << >> ]
  /\ rid = [ p \in Procs |-> None ]
  /\ menu = NoMenu
  /\ viz = << >>
  /\ dashboard_json = None

GenerateId ==
  /\ op.name = "init"
  /\ op' = [name |-> "_generate_id", arg |-> None]
  /\ ret' = I(_generate_id(read_csv(patients), "patient_id"))
  /\ UNCHANGED << patients, appointments, medical, billing, added, raceVars, reportVars >>

NextGen == GenerateId

SpecGen == InitGen /\ [][NextGen]_vars

(* ------------- two processes in add_patient on the same file ----------- *)

\* the columns of patients.csv in the order of its header line
PatientColumns ==
  << "patient_id", "name", "age", "gender", "contact", "address", "email",
     "registration_date", "blood_group" >>

\* texts put one after the other with a separator after each
RECURSIVE Joined(_, _)
Joined(texts, sep) ==
  IF Len(texts) = 0 THEN << >>
  ELSE texts[1] \o sep \o Joined(Tail(texts), sep)

\* the line to_csv writes for a row (no cell here holds a comma, a quote or a
\* line break, so none is quoted), with its line break
Line(row) ==
  LET all == Joined([ c \in 1..Len(PatientColumns) |-> row[PatientColumns[c]] ], << "," >>)
  IN SubSeq(all, 1, Len(all) - 1) \o << "\n" >>

\* the bytes of patients.csv after its header line; a file just opened for
\* writing holds no byte at all
RECURSIVE FileText(_)
FileText(file) ==
  IF read_csv_raises(file) \/ Len(file) = 0 THEN << >>
  ELSE Line(file[1]) \o FileText(Tail(file))

\* a text written from the start of a file over what the file holds: the
\* bytes beyond the end of the new text stay
Overlay(new, old) ==
  IF Len(old) > Len(new) THEN new \o SubSeq(old, Len(new) + 1, Len(old)) ELSE new

\* the pieces of a text between separators
RECURSIVE Pieces(_, _)
Pieces(text, sep) ==
  IF \A i \in 1..Len(text) : text[i] # sep THEN << text >>
  ELSE LET k == CHOOSE k \in 1..Len(text) : text[k] = sep /\ \A j \in 1..(k - 1) : text[j] # sep
       IN << SubSeq(text, 1, k - 1) >> \o Pieces(SubSeq(text, k + 1, Len(text)), sep)

\* the data rows read_csv finds in the bytes after the header line: blank
\* lines are skipped, a line of fewer fields is filled up with missing cells,
\* a line of more fields makes read_csv raise
RowsOfText(text) ==
  LET lines == SelectSeq(Pieces(text, "\n"), LAMBDA l : Len(l) > 0)
      fields == [ i \in 1..Len(lines) |-> Pieces(lines[i], ",") ]
  IN IF \E i \in 1..Len(lines) : Len(fields[i]) > Len(PatientColumns)
     THEN Unreadable
     ELSE [ i \in 1..Len(lines) |->
            [ c \in { PatientColumns[k] : k \in 1..Len(PatientColumns) } |->
                LET k == CHOOSE k \in 1..Len(PatientColumns) : PatientColumns[k] = c
                IN IF k <= Len(fields[i]) THEN fields[i][k] ELSE << >> ] ]

\* process p reads the file and builds the frame it will write (lines 79-93);
\* when read_csv or int(age) raises it prints the error and returns None
\* (lines 98-101)
race_load(p, name, age, gender, contact, address, email, blood_group, today) ==
  LET patients_df == read_csv(patients)
      row == new_patient(patients_df, name, age, gender, contact, address,
                         email, blood_group, today)
  IN /\ pc[p] = "idle"
     /\ IF ~read_csv_raises(patients) /\ PyInt(age).ok
        THEN /\ frame' = [frame EXCEPT ![p] = concat(patients_df, row)]
             /\ rid' = [rid EXCEPT ![p] = row.patient_id]
             /\ pc' = [pc EXCEPT ![p] = "loaded"]
        ELSE /\ frame' = frame
             /\ rid' = [rid EXCEPT ![p] = None]
             /\ pc' = [pc EXCEPT ![p] = "done"]
     /\ UNCHANGED << patients, appointments, medical, billing, op, ret, added, menu, reportVars >>

\* to_csv of process p opens the file for writing, which empties it (line 94)
race_open(p) ==
  /\ pc[p] = "loaded"
  /\ patients' = Unreadable
  /\ pc' = [pc EXCEPT ![p] = "opened"]
  /\ UNCHANGED << appointments, medical, billing, op, ret, added, frame, rid, menu, reportVars >>

\* race_save with the file opened for appending: only the new row is written
race_save_append(p) ==
  /\ pc[p] = "opened"
  /\ patients' = IF read_csv_raises(patients) THEN << to_csv(frame[p])[Len(frame[p])] >>
                 ELSE Append(patients, to_csv(frame[p])[Len(frame[p])])
  /\ pc' = [pc EXCEPT ![p] = "done"]
  /\ UNCHANGED << appointments, medical, billing, op, ret, added, frame, rid, menu, reportVars >>

\* to_csv of process p writes its frame from the start of the file, over what
\* the other process may have written since the file was opened, and the call
\* returns (lines 94-96)
race_save(p) ==
  /\ pc[p] = "opened"
  /\ patients' = RowsOfText(Overlay(FileText(to_csv(frame[p])), FileText(patients)))
  /\ pc' = [pc EXCEPT ![p] = "done"]
  /\ UNCHANGED << appointments, medical, billing, op, ret, added, frame, rid, menu, reportVars >>

RaceLoad ==
  \E p \in Procs, name \in Names, age \in Ages, gender \in Genders,
     contact \in Contacts, address \in Addresses, email \in Emails,
     blood_group \in BloodGroups, today \in Clock :
       race_load(p, name, age, gender, contact, address, email, blood_group, today)

RaceOpen == \E p \in Procs : race_open(p)

RaceSave == \E p \in Procs : race_save(p)

NextRace ==
  \/ RaceLoad
  \/ RaceOpen
  \/ RaceSave

SpecRace == Init /\ [][NextRace]_vars

(* ------------- patients whose names the CSV reader takes for missing --- *)

\* names as typed at the prompt: a plain one, and one that is a default
\* na_value of read_csv
NamesNA == { << "A", "n", "n" >>, << "N", "A" >> }

AddPatientNA ==
  \E name \in NamesNA, today \in Clock :
     add_patient(name, I(30), << "F" >>, << "5", "-", "1" >>, << "1", " ", "S", "t" >>,
                 << >>, << >>, today)

NextNames ==
  \/ AddPatientNA
  \/ ScheduleAppointment
  \/ GenerateBill
  \/ get_all_patients
  \/ SearchPatients
  \/ GetPatientById

SpecNames == Init /\ [][NextNames]_vars

(* ------------- the reports on files as a run may find them ------------- *)

\* Rows held by the four files together when the reports are asked for.
MaxReportRows == 2

\* the rows add_patient, schedule_appointment, add_medical_record and
\* generate_bill write, the k-th row of a file with the id 1000 + k; a status
\* other than the default is one set in the file by hand
ReportPatient(k, c) ==
  [ patient_id |-> IntToText(1000 + k), name |-> << "A", "n", "n" >>, age |-> c.age,
    gender |-> c.gender, contact |-> << "5", "-", "1" >>, address |-> << "1", " ", "S", "t" >>, email |-> << >>,
    registration_date |-> << "2", "0", "2", "4", "-", "0", "1", "-", "1", "5" >>, blood_group |-> c.blood_group ]

ReportAppointment(k, c) ==
  [ appointment_id |-> IntToText(1000 + k), patient_id |-> << "1", "0", "0", "1" >>,
    patient_name |-> << "A", "n", "n" >>, doctor_name |-> << "D", "r" >>, department |-> c.department,
    appointment_date |-> << "2", "0", "2", "4", "-", "0", "1", "-", "1", "5" >>, appointment_time |-> << "1", "0", ":", "0", "0" >>,
    status |-> c.status, notes |-> << >> ]

ReportRecord(k, c) ==
  [ record_id |-> IntToText(1000 + k), patient_id |-> << "1", "0", "0", "1" >>,
    visit_date |-> << "2", "0", "2", "4", "-", "0", "1", "-", "1", "5" >>, symptoms |-> << "o", "k" >>, diagnosis |-> c.diagnosis,
    treatment |-> << "o", "k" >>, medication |-> << "o", "k" >>, tests |-> << "o", "k" >>, notes |-> << >> ]

ReportBill(k, c) ==
  [ bill_id |-> IntToText(1000 + k), patient_id |-> << "1", "0", "0", "1" >>, patient_name |-> << "A", "n", "n" >>,
    bill_date |-> << "2", "0", "2", "4", "-", "0", "1", "-", "1", "5" >>, service_type |-> c.service_type,
    description |-> << "o", "k" >>, amount |-> c.amount, status |-> c.status,
    due_date |-> << "2", "0", "2", "4", "-", "0", "2", "-", "1", "4" >> ]

PatientChoices ==
  { [ age |-> << "3", "0" >>, gender |-> << "F" >>, blood_group |-> << >> ],
    [ age |-> << "4", "1" >>, gender |-> << "M" >>, blood_group |-> << "A", "+" >> ] }

AppointmentChoices ==
  { [ department |-> << "E", "R" >>, status |-> << "S", "c", "h", "e", "d", "u", "l", "e", "d" >> ],
    [ department |-> << "I", "C", "U" >>, status |-> << "C", "o", "m", "p", "l", "e", "t", "e", "d" >> ] }

RecordChoices == [ diagnosis : { << "F", "l", "u" >>, << >> } ]

BillChoices ==
  { [ service_type |-> << "T", "e", "s", "t", "s" >>, amount |-> << "1", "5", "0", ".", "0" >>, status |-> << "P", "e", "n", "d", "i", "n", "g" >> ],
    [ service_type |-> << "T", "e", "s", "t", "s" >>, amount |-> << "1", "5", "0", ".", "0" >>, status |-> << "P", "a", "i", "d" >> ],
    [ service_type |-> << "V", "i", "s", "i", "t" >>, amount |-> << "2", "0", "0", ".", "0" >>, status |-> << "P", "a", "i", "d" >> ],
    [ service_type |-> << "V", "i", "s", "i", "t" >>, amount |-> << "2", "0", "0", ".", "0" >>, status |-> << "V", "o", "i", "d" >> ] }

\* the files of n rows
PatientFiles(n) ==
  { [ k \in 1..n |-> ReportPatient(k, f[k]) ] : f \in [ 1..n -> PatientChoices ] }

AppointmentFiles(n) ==
  { [ k \in 1..n |-> ReportAppointment(k, f[k]) ] : f \in [ 1..n -> AppointmentChoices ] }

RecordFiles(n) ==
  { [ k \in 1..n |-> ReportRecord(k, f[k]) ] : f \in [ 1..n -> RecordChoices ] }

BillFiles(n) ==
  { [ k \in 1..n |-> ReportBill(k, f[k]) ] : f \in [ 1..n -> BillChoices ] }

InitReports ==
  /\ \E np, na, nm, nb \in 0..MaxReportRows :
        /\ np + na + nm + nb <= MaxReportRows
        /\ patients \in PatientFiles(np)
        /\ appointments \in AppointmentFiles(na)
        /\ medical \in RecordFiles(nm)
        /\ billing \in BillFiles(nb)
  /\ op = [name |-> "init", arg |-> None]
  /\ ret = None
  /\ added = << >>
  /\ pc = [ p \in Procs |-> "idle" ]
  /\ frame = [ p \in Procs |-> << >> ]
  /\ rid = [ p \in Procs |-> None ]
  /\ menu = NoMenu
  /\ viz = << >>
  /\ dashboard_json = None

NextReports ==
  \/ GetSystemStats
  \/ GeneratePatientStatistics
  \/ GenerateAppointmentAnalytics
  \/ GenerateFinancialReports
  \/ GenerateMedicalAnalytics
  \/ GenerateDashboardSummary

SpecReports == InitReports /\ [][NextReports]_vars

(* ------------- every operation that only reads ------------------------- *)

\* Rows held by the four files together when they are read.
MaxReadRows == 1

InitReads ==
  /\ \E np, na, nm, nb \in 0..MaxReadRows :
        /\ np + na + nm + nb <= MaxReadRows
        /\ patients \in PatientFiles(np)
        /\ appointments \in AppointmentFiles(na)
        /\ medical \in RecordFiles(nm)
        /\ billing \in BillFiles(nb)
  /\ op = [name |-> "init", arg |-> None]
  /\ ret = None
  /\ added = << >>
  /\ pc = [ p \in Procs |-> "idle" ]
  /\ frame = [ p \in Procs |-> << >> ]
  /\ rid = [ p \in Procs |-> None ]
  /\ menu = NoMenu
  /\ viz = << >>
  /\ dashboard_json = None

NextReads ==
  \/ get_all_patients
  \/ SearchPatients
  \/ GetPatientById
  \/ GetAllAppointments
  \/ GetAppointmentsByDate
  \/ GetPatientMedicalHistory
  \/ GetPatientBills
  \/ GetAllBills
  \/ GetSystemStats
  \/ ExportDataToJson
  \/ GeneratePatientStatistics
  \/ GenerateAppointmentAnalytics
  \/ GenerateFinancialReports
  \/ GenerateMedicalAnalytics
  \/ GenerateDashboardSummary

SpecReads == InitReads /\ [][NextReads]_vars

(* ------------- medical records of many diagnoses ---------------------- *)

\* The distinct diagnoses a medical file holds, and the records that repeat
\* one of them or hold none.
MaxDiagnoses == 11
MaxRepeats == 2

\* the k-th diagnosis
DiagnosisName(k) == << "D" >> \o NatToText(k)

\* the diagnosis of each row: up to MaxRepeats rows of the first two diagnoses
\* or of none, then one row for each of the first n diagnoses
DiagnosisColumns ==
  { rep \o [ k \in 1..n |-> DiagnosisName(k) ] :
      rep \in UNION { [ 1..m -> { DiagnosisName(1), DiagnosisName(2), << >> } ] : m \in 0..MaxRepeats },
      n \in 0..MaxDiagnoses }

InitDiagnoses ==
  /\ patients \in PatientFiles(1)
  /\ appointments = << >>
  /\ \E col \in DiagnosisColumns :
       medical = [ k \in 1..Len(col) |-> ReportRecord(k, [ diagnosis |-> col[k] ]) ]
  /\ billing = << >>
  /\ op = [name |-> "init", arg |-> None]
  /\ ret = None
  /\ added = << >>
  /\ pc = [ p \in Procs |-> "idle" ]
  /\ frame = [ p \in Procs |-> << >> ]
  /\ rid = [ p \in Procs |-> None ]
  /\ menu = NoMenu
  /\ viz = << >>
  /\ dashboard_json = None

NextDiagnoses ==
  \/ GenerateMedicalAnalytics
  \/ GetPatientMedicalHistory

SpecDiagnoses == InitDiagnoses /\ [][NextDiagnoses]_vars

(* ------------- appointment dates written without separators ----------- *)

\* appointment dates as a caller may write them
DatesCompact == { << "2", "0", "2", "4", "-", "0", "1", "-", "1", "5" >>, << "2", "0", "2", "4", "0", "1", "1", "5" >> }

ScheduleAppointmentCompact ==
  \E patient_id \in PatientIdArgs, appointment_date \in DatesCompact :
     schedule_appointment(patient_id, << "D", "r" >>, << "E", "R" >>, appointment_date, << "1", "0", ":", "0", "0" >>, << >>)

GetAppointmentsByDateCompact == \E date \in DatesCompact : get_appointments_by_date(date)

NextCompact ==
  \/ AddPatientNA
  \/ ScheduleAppointmentCompact
  \/ GetAppointmentsByDateCompact
  \/ GetAllAppointments
  \/ GetPatientById
  \/ GetPatientMedicalHistory
  \/ GetPatientBills

SpecCompact == Init /\ [][NextCompact]_vars

(* ------------- the reports on files that are missing or damaged -------- *)

\* Rows held by each file when the dashboard is asked for.
MaxDashRows == 1

\* a patient whose age cell is empty, a bill whose amount cell is empty
DashPatientChoices ==
  { [ age |-> a, gender |-> << "F" >>, blood_group |-> << "A", "+" >> ] : a \in { << "3", "0" >>, << >> } }

DashBillChoices ==
  { [ service_type |-> << "T", "e", "s", "t", "s" >>, amount |-> a, status |-> << "P", "e", "n", "d", "i", "n", "g" >> ] :
      a \in { << "1", "5", "0", ".", "0" >>, << >> } }

DashAppointmentChoices == { [ department |-> << "E", "R" >>, status |-> << "S", "c", "h", "e", "d", "u", "l", "e", "d" >> ] }

DashRecordChoices == { [ diagnosis |-> << "F", "l", "u" >> ] }

\* the contents of a file: missing, unreadable, or up to MaxDashRows rows
DashPatientFiles ==
  { Missing, Unreadable } \cup
  UNION { { [ k \in 1..n |-> ReportPatient(k, f[k]) ] : f \in [ 1..n -> DashPatientChoices ] } :
          n \in 0..MaxDashRows }

DashAppointmentFiles ==
  { Missing, Unreadable } \cup
  UNION { { [ k \in 1..n |-> ReportAppointment(k, f[k]) ] :
              f \in [ 1..n -> DashAppointmentChoices ] } : n \in 0..MaxDashRows }

DashRecordFiles ==
  { Missing, Unreadable } \cup
  UNION { { [ k \in 1..n |-> ReportRecord(k, f[k]) ] : f \in [ 1..n -> DashRecordChoices ] } :
          n \in 0..MaxDashRows }

DashBillFiles ==
  { Missing, Unreadable } \cup
  UNION { { [ k \in 1..n |-> ReportBill(k, f[k]) ] : f \in [ 1..n -> DashBillChoices ] } :
          n \in 0..MaxDashRows }

InitDash ==
  /\ patients \in DashPatientFiles
  /\ appointments \in DashAppointmentFiles
  /\ medical \in DashRecordFiles
  /\ billing \in DashBillFiles
  /\ op = [name |-> "init", arg |-> None]
  /\ ret = None
  /\ added = << >>
  /\ pc = [ p \in Procs |-> "idle" ]
  /\ frame = [ p \in Procs |-> << >> ]
  /\ rid = [ p \in Procs |-> None ]
  /\ menu = NoMenu
  /\ viz = << >>
  /\ dashboard_json = None

NextDash ==
  \/ GenerateDashboardSummary
  \/ GenerateFinancialReports

SpecDash == InitDash /\ [][NextDash]_vars

(* ------------- appointments on a day that is no date ------------------- *)

\* appointment dates as typed at the prompt: a date, and words that are none
DatesTyped == { << "2", "0", "2", "4", "-", "0", "1", "-", "1", "5" >>, << "s", "o", "o", "n" >> }

ScheduleAppointmentTyped ==
  \E patient_id \in PatientIdArgs, appointment_date \in DatesTyped :
     schedule_appointment(patient_id, << "D", "r" >>, << "E", "R" >>, appointment_date, << "1", "0", ":", "0", "0" >>, << >>)

NextDates ==
  \/ AddPatientNA
  \/ ScheduleAppointmentTyped
  \/ get_all_patients
  \/ SearchPatients
  \/ GetPatientById

SpecDates == Init /\ [][NextDates]_vars

(* ------------- rows taken out of a file by hand ------------------------ *)

\* the place of the row with the highest id
HighestAt(file, col) ==
  CHOOSE i \in 1..Len(file) :
    \A j \in 1..Len(file) : IntOfText(file[j][col]) <= IntOfText(file[i][col])

\* a file without its i-th row
Without(file, i) == SubSeq(file, 1, i - 1) \o SubSeq(file, i + 1, Len(file))

\* someone deletes the row with the highest id from a file, in an editor; the
\* number of such edits is kept finite through the count of the patients added
RemoveHighestPatient ==
  /\ Len(patients) > 0
  /\ Len(added) <= MaxRecords
  /\ op' = [name |-> "remove_patient",
            arg |-> I(IntOfText(patients[HighestAt(patients, "patient_id")].patient_id))]
  /\ patients' = Without(patients, HighestAt(patients, "patient_id"))
  /\ ret' = None
  /\ UNCHANGED << appointments, medical, billing, added, raceVars, reportVars >>

RemoveHighestAppointment ==
  /\ Len(appointments) > 0
  /\ op' = [name |-> "remove_appointment",
            arg |-> I(IntOfText(appointments[HighestAt(appointments, "appointment_id")].appointment_id))]
  /\ appointments' = Without(appointments, HighestAt(appointments, "appointment_id"))
  /\ ret' = None
  /\ UNCHANGED << patients, medical, billing, added, raceVars, reportVars >>

RemoveHighestRecord ==
  /\ Len(medical) > 0
  /\ op' = [name |-> "remove_record",
            arg |-> I(IntOfText(medical[HighestAt(medical, "record_id")].record_id))]
  /\ medical' = Without(medical, HighestAt(medical, "record_id"))
  /\ ret' = None
  /\ UNCHANGED << patients, appointments, billing, added, raceVars, reportVars >>

RemoveHighestBill ==
  /\ Len(billing) > 0
  /\ op' = [name |-> "remove_bill",
            arg |-> I(IntOfText(billing[HighestAt(billing, "bill_id")].bill_id))]
  /\ billing' = Without(billing, HighestAt(billing, "bill_id"))
  /\ ret' = None
  /\ UNCHANGED << patients, appointments, medical, added, raceVars, reportVars >>

NextRemove ==
  \/ AddPatientNA
  \/ ScheduleAppointment
  \/ AddMedicalRecord
  \/ GenerateBill
  \/ RemoveHighestPatient
  \/ RemoveHighestAppointment
  \/ RemoveHighestRecord
  \/ RemoveHighestBill

SpecRemove == Init /\ [][NextRemove]_vars

(* ------------- files that cannot be read ------------------------------- *)

\* each file is empty, as _init_data_files made it, or has become unreadable
InitBroken ==
  /\ patients \in { << >>, Unreadable }
  /\ appointments \in { << >>, Unreadable }
  /\ medical \in { << >>, Unreadable }
  /\ billing \in { << >>, Unreadable }
  /\ op = [name |-> "init", arg |-> None]
  /\ ret = None
  /\ added = << >>
  /\ pc = [ p \in Procs |-> "idle" ]
  /\ frame = [ p \in Procs |-> << >> ]
  /\ rid = [ p \in Procs |-> None ]
  /\ menu = NoMenu
  /\ viz = << >>
  /\ dashboard_json = None

NextBroken ==
  \/ AddPatientNA
  \/ ScheduleAppointmentTyped
  \/ AddMedicalRecord
  \/ GenerateBill
  \/ get_all_patients
  \/ SearchPatients
  \/ GetPatientById
  \/ GetAllAppointments
  \/ GetAppointmentsByDate
  \/ GetPatientMedicalHistory
  \/ GetPatientBills
  \/ GetAllBills
  \/ GetSystemStats

SpecBroken == InitBroken /\ [][NextBroken]_vars

(* ------------- starting the program again ------------------------------ *)

\* the file names of the messages "Created ..." that _init_data_files prints
Created ==
  (IF exists(patients) THEN {} ELSE { "patients.csv" }) \cup
  (IF exists(appointments) THEN {} ELSE { "appointments.csv" }) \cup
  (IF exists(medical) THEN {} ELSE { "medical_records.csv" }) \cup
  (IF exists(billing) THEN {} ELSE { "billing.csv" })

\* _init_data_files without the os.path.exists tests: every file is written
\* anew with its header
_init_data_files_anew ==
  /\ op' = [name |-> "_init_data_files", arg |-> None, created |-> Created]
  /\ patients' = << >>
  /\ appointments' = << >>
  /\ medical' = << >>
  /\ billing' = << >>
  /\ ret' = None
  /\ UNCHANGED << added, raceVars, reportVars >>

\* _init_data_files(): a file that does not exist is created with its header
\* line and no row (the header of a file is always that of its collection and
\* is not held in the model)
_init_data_files ==
  /\ op' = [name |-> "_init_data_files", arg |-> None, created |-> Created]
  /\ patients' = IF exists(patients) THEN patients ELSE << >>
  /\ appointments' = IF exists(appointments) THEN appointments ELSE << >>
  /\ medical' = IF exists(medical) THEN medical ELSE << >>
  /\ billing' = IF exists(billing) THEN billing ELSE << >>
  /\ ret' = None
  /\ UNCHANGED << added, raceVars, reportVars >>

\* someone deletes a data file while the program is not running, and the
\* program is started again afterwards; the number of deletions is kept finite
\* through the count of the patients added
DeleteFile ==
  /\ op.name # "delete_file"
  /\ Len(added) <= MaxRecords
  /\ \E f \in { "patients.csv", "appointments.csv", "medical_records.csv", "billing.csv" } :
       /\ f \notin Created
       /\ op' = [name |-> "delete_file", arg |-> None, file |-> f]
       /\ patients' = IF f = "patients.csv" THEN Missing ELSE patients
       /\ appointments' = IF f = "appointments.csv" THEN Missing ELSE appointments
       /\ medical' = IF f = "medical_records.csv" THEN Missing ELSE medical
       /\ billing' = IF f = "billing.csv" THEN Missing ELSE billing
  /\ ret' = None
  /\ UNCHANGED << added, raceVars, reportVars >>

\* before the first start no file is there
InitRestart ==
  /\ patients = Missing
  /\ appointments = Missing
  /\ medical = Missing
  /\ billing = Missing
  /\ op = [name |-> "init", arg |-> None]
  /\ ret = None
  /\ added = << >>
  /\ pc = [ p \in Procs |-> "idle" ]
  /\ frame = [ p \in Procs |-> << >> ]
  /\ rid = [ p \in Procs |-> None ]
  /\ menu = NoMenu
  /\ viz = << >>
  /\ dashboard_json = None

\* an object of HospitalDataManager exists: the operations are methods of an
\* object, whose construction runs _init_data_files first
Constructed == op.name \notin { "init", "delete_file" }

NextRestart ==
  \/ _init_data_files
  \/ DeleteFile
  \/ Constructed /\ AddPatientNA
  \/ Constructed /\ ScheduleAppointmentTyped
  \/ Constructed /\ AddMedicalRecord
  \/ Constructed /\ GenerateBill

SpecRestart == InitRestart /\ [][NextRestart]_vars

(* ------------- reports on what the program itself has written --------- *)

NextOwn ==
  \/ AddPatientNA
  \/ ScheduleAppointmentTyped
  \/ GenerateBill
  \/ GenerateAppointmentAnalytics
  \/ GenerateFinancialReports
  \/ GenerateDashboardSummary

SpecOwn == Init /\ [][NextOwn]_vars

(* ------------- the interactive menu ------------------------------------ *)

\* add_medical_record_interactive(dm) of main.py runs in three steps with the
\* program waiting in input() between them: the file may be another one at
\* each step. op and ret are set when the function returns; called tells
\* whether dm.add_medical_record was called.

\* lines 303-320: dm.get_all_patients(); with no patient the function returns
\* None, otherwise it lists the patients and waits at 'Enter Patient ID:'
add_medical_record_interactive_list ==
  /\ menu.at = "idle"
  /\ TotalRows < MaxRecords
  /\ IF Len(all_patients) = 0
     THEN /\ op' = [name |-> "add_medical_record_interactive", arg |-> None, called |-> FALSE]
          /\ ret' = None
          /\ UNCHANGED menu
     ELSE /\ menu' = [at |-> "listed", patient_id |-> None]
          /\ UNCHANGED << op, ret >>
  /\ UNCHANGED << patients, appointments, medical, billing, added, pc, frame, rid, reportVars >>

\* the step at 'Enter Patient ID:' without the get_patient_by_id test
add_medical_record_interactive_unchecked(patient_id) ==
  /\ menu.at = "listed"
  /\ menu' = [at |-> "checked", patient_id |-> I(patient_id)]
  /\ UNCHANGED << patients, appointments, medical, billing, op, ret, added, pc, frame, rid, reportVars >>

\* lines 320-336: the number entered, dm.get_patient_by_id(patient_id); with
\* no such patient the function returns None, otherwise it waits at
\* 'Symptoms:' and the five prompts after it
add_medical_record_interactive_check(patient_id) ==
  LET patient == IF read_csv_raises(patients) THEN << >>
                 ELSE fillna(filter_eq(read_csv(patients), "patient_id", I(patient_id)))
  IN /\ menu.at = "listed"
     /\ IF Len(patient) = 0
        THEN /\ op' = [name |-> "add_medical_record_interactive", arg |-> I(patient_id), called |-> FALSE]
             /\ ret' = None
             /\ menu' = NoMenu
        ELSE /\ menu' = [at |-> "checked", patient_id |-> I(patient_id)]
             /\ UNCHANGED << op, ret >>
     /\ UNCHANGED << patients, appointments, medical, billing, added, pc, frame, rid, reportVars >>

\* lines 331-353: the texts entered, dm.add_medical_record with the id given
\* at 'Enter Patient ID:', whose steps are those of add_medical_record above,
\* and the return of its record id, or of None when it returned None
add_medical_record_interactive_add(symptoms, diagnosis, treatment, medication, tests, notes, today) ==
  LET patient_id == menu.patient_id.v
      medical_df == read_csv(medical)
      row == new_record(medical_df, patient_id, symptoms, diagnosis, treatment,
                        medication, tests, notes, today)
  IN /\ menu.at = "checked"
     /\ TotalRows < MaxRecords
     /\ op' = [name |-> "add_medical_record_interactive", arg |-> I(patient_id), called |-> TRUE]
     /\ IF read_csv_raises(medical)
        THEN /\ ret' = None
             /\ UNCHANGED medical
        ELSE /\ medical' = to_csv(concat(medical_df, row))
             /\ ret' = row.record_id
     /\ menu' = NoMenu
     /\ UNCHANGED << patients, appointments, billing, added, pc, frame, rid, reportVars >>

\* the function from its call to its return, a step at a time
add_medical_record_interactive(patient_id, symptoms, diagnosis, treatment, medication, tests, notes, today) ==
  \/ add_medical_record_interactive_list
  \/ add_medical_record_interactive_check(patient_id)
  \/ add_medical_record_interactive_add(symptoms, diagnosis, treatment, medication,
                                        tests, notes, today)

AddMedicalRecordInteractive ==
  \E patient_id \in PatientIdArgs, symptoms \in Words, diagnosis \in Diagnoses,
     treatment \in Words, medication \in Words, tests \in Words, notes \in Notes,
     today \in Clock :
       add_medical_record_interactive(patient_id, symptoms, diagnosis, treatment,
                                      medication, tests, notes, today)

NextMenu ==
  \/ AddPatient
  \/ AddMedicalRecordInteractive
  \/ get_all_patients
  \/ GetPatientById
  \/ GetPatientMedicalHistory

SpecMenu == Init /\ [][NextMenu]_vars

\* the menu while someone edits patients.csv by hand
NextMenuEdited ==
  \/ NextMenu
  \/ RemoveHighestPatient

SpecMenuEdited == Init /\ [][NextMenuEdited]_vars

(* ============================ claims =================================== *)

\* the ids of a file as read_csv reads them
IdsOf(file, col) == Column(read_csv(file), col)

UniqueIds(file, col) ==
  LET ids == IdsOf(file, col) IN
  \A i, j \in 1..Len(file) : i # j => ~PyEq(ids[i], ids[j])

AllIdsUnique ==
  /\ UniqueIds(patients, "patient_id")
  /\ UniqueIds(appointments, "appointment_id")
  /\ UniqueIds(medical, "record_id")
  /\ UniqueIds(billing, "bill_id")

\* the rows of file keep their ids in file2
IdsKept(file, file2, col) ==
  /\ Len(file2) >= Len(file)
  /\ \A i \in 1..Len(file) : file2[i][col] = file[i][col]

\* an id is no id of a row of the file
FreshIn(id, file, col) ==
  LET ids == IdsOf(file, col) IN \A i \in 1..Len(file) : ~PyEq(ids[i], id)

IdStep ==
  /\ IdsKept(patients, patients', "patient_id")
  /\ IdsKept(appointments, appointments', "appointment_id")
  /\ IdsKept(medical, medical', "record_id")
  /\ IdsKept(billing, billing', "bill_id")
  /\ (op'.name = "add_patient" /\ ret'.t = "int")
       => FreshIn(ret', patients, "patient_id")
  /\ (op'.name = "schedule_appointment" /\ ret'.t = "int")
       => FreshIn(ret', appointments, "appointment_id")
  /\ (op'.name = "add_medical_record" /\ ret'.t = "int")
       => FreshIn(ret', medical, "record_id")
  /\ (op'.name = "generate_bill" /\ ret'.t = "int")
       => FreshIn(ret', billing, "bill_id")

\* C1: from four empty collections, under any single-process sequence of the
\* four add operations, the ids of each collection are pairwise different in
\* every state, every row keeps its id, and the id an add returns is the id of
\* no row the collection held before the call.
C1_IdsUniqueNeverReused == []AllIdsUnique /\ [][IdStep]_vars

C1_Witness ==
  /\ op.name = "add_patient"
  /\ ret = I(1002)
  /\ Len(patients) = 2

\* the valid integer ids of the id column of a file
ValidIds(file, col) ==
  { IntOfText(file[i][col]) : i \in { k \in 1..Len(file) : IsIntText(file[k][col]) } }

MaxOf(set) == CHOOSE m \in set : \A n \in set : n <= m

\* C2: for every content of the id column, _generate_id returns 1001 when
\* there is no valid integer id, max + 1 otherwise, and never an id present.
C2_GenerateIdClaim ==
  op.name = "_generate_id" =>
    LET valid == ValidIds(patients, "patient_id") IN
    /\ ret.v = (IF valid = {} THEN 1001 ELSE MaxOf(valid) + 1)
    /\ ret.v \notin valid

PatientExists(id) == ~FreshIn(id, patients, "patient_id")

\* C3: schedule_appointment, add_medical_record and generate_bill called with
\* a patient_id that no patient has return no id and leave their collection
\* as it was.
C3_RejectsUnknownPatient ==
  [][ /\ (op'.name = "schedule_appointment" /\ ~PatientExists(op'.arg))
           => (ret'.t = "none" /\ appointments' = appointments)
      /\ (op'.name = "add_medical_record" /\ ~PatientExists(op'.arg))
           => (ret'.t = "none" /\ medical' = medical)
      /\ (op'.name = "generate_bill" /\ ~PatientExists(op'.arg))
           => (ret'.t = "none" /\ billing' = billing) ]_vars

BothDone == \A p \in Procs : pc[p] = "done"

\* the row process p set out to write
Wrote(p) == to_csv(frame[p])[Len(frame[p])]

\* C4: two processes in add_patient that both loaded the file before either
\* wrote it (they hold frames of the same length): once both have returned
\* an id, the two ids are the same (a collision) and the file holds the row
\* of one of them at most (a lost update).
C4_RaceLosesUpdate ==
  (BothDone /\ rid[1].t = "int" /\ rid[2].t = "int" /\ Len(frame[1]) = Len(frame[2])) =>
     /\ rid[1] = rid[2]
     /\ ~read_csv_raises(patients)
     /\ Cardinality({ i \in 1..Len(patients) : patients[i] \in { Wrote(1), Wrote(2) } }) <= 1

C4_Witness ==
  /\ BothDone
  /\ Len(patients) = 1
  /\ rid[1] = rid[2]
  /\ rid[1] = I(1001)

\* C5: search_patients("") returns no record.
C5_EmptyTermMatchesNone ==
  (op.name = "search_patients" /\ Len(op.arg.v) = 0) => Len(ret.v) = 0

LowerText(s) == [ i \in 1..Len(s) |-> Lower(s[i]) ]

\* term occurs in text, character for character
IsSubstring(text, term) ==
  \E start \in 0..(Len(text) - Len(term)) :
     \A j \in 1..Len(term) : text[start + j] = term[j]

\* C6: for a non-empty term search_patients returns exactly the patients
\* whose name contains the term ignoring case or whose id in decimal contains
\* the term, each once, in collection order.
C6_SearchIsSubstringMatch ==
  (op.name = "search_patients" /\ Len(op.arg.v) > 0) =>
    ret.v = SelectSeq(fillna(read_csv(patients)),
              LAMBDA r : \/ IsSubstring(LowerText(PyStr(r.name)), LowerText(op.arg.v))
                         \/ IsSubstring(PyStr(r.patient_id), op.arg.v))

\* C7: get_patient_by_id returns a frame (no error): empty when no patient has
\* the id, else the one row of the patient with that id; never two rows.
C7_GetByIdZeroOrOne ==
  op.name = "get_patient_by_id" =>
    LET all == fillna(read_csv(patients))
        hits == { i \in 1..Len(all) : PyEq(all[i].patient_id, op.arg) }
    IN /\ ret.t = "df"
       /\ Len(ret.v) <= 1
       /\ hits = {} => Len(ret.v) = 0
       /\ \A i \in hits : ret.v = << all[i] >>

C7_Witness ==
  /\ op.name = "get_patient_by_id"
  /\ op.arg = I(1002)
  /\ Len(patients) = 2
  /\ Len(ret.v) = 1
  /\ ret.v[1].patient_id = I(1002)

\* C8: after N successful add_patient calls on an empty collection,
\* get_all_patients returns N rows, in call order, whose name, age, gender,
\* contact, address, email and blood_group are the values passed.
C8_RoundTrip ==
  op.name = "get_all_patients" =>
    /\ Len(ret.v) = Len(added)
    /\ \A i \in 1..Len(added) :
          /\ PyStr(ret.v[i].name) = added[i].name
          /\ ret.v[i].age = I(added[i].age)
          /\ PyStr(ret.v[i].gender) = added[i].gender
          /\ PyStr(ret.v[i].contact) = added[i].contact
          /\ PyStr(ret.v[i].address) = added[i].address
          /\ PyStr(ret.v[i].email) = added[i].email
          /\ PyStr(ret.v[i].blood_group) = added[i].blood_group

\* file2 is file, or file with one row appended
AppendOnly(file, file2) ==
  /\ Len(file2) \in { Len(file), Len(file) + 1 }
  /\ \A i \in 1..Len(file) : file2[i] = file[i]

\* C9: a row once in a collection stays, in place, with the same id and the
\* same field values, after every operation; an add only appends one row.
C9_RowsPersist ==
  [][ /\ AppendOnly(patients, patients')
      /\ AppendOnly(appointments, appointments')
      /\ AppendOnly(medical, medical')
      /\ AppendOnly(billing, billing') ]_vars

\* the id the next row of a file is due, from the ids of that file alone
NextIdOf(file, col) ==
  IF Len(file) = 0 THEN 1001
  ELSE MaxOf({ IntOfText(file[i][col]) : i \in 1..Len(file) }) + 1

\* C10: the id of a new appointment, medical record or bill is decided by the
\* ids of its own collection alone: 1001 for the first row, whatever the other
\* collections hold, else one more than the largest id of the collection.
C10_OwnIdSpace ==
  [][ /\ (op'.name = "schedule_appointment" /\ ret'.t = "int")
           => ret'.v = NextIdOf(appointments, "appointment_id")
      /\ (op'.name = "add_medical_record" /\ ret'.t = "int")
           => ret'.v = NextIdOf(medical, "record_id")
      /\ (op'.name = "generate_bill" /\ ret'.t = "int")
           => ret'.v = NextIdOf(billing, "bill_id") ]_vars

C10_Witness ==
  /\ op.name = "schedule_appointment"
  /\ ret = I(1001)
  /\ Len(appointments) = 1
  /\ Len(patients) = 1
  /\ patients[1].patient_id = << "1", "0", "0", "1" >>

\* the row of the patients file whose id is the integer id
PatientRow(file, id) ==
  file[CHOOSE i \in 1..Len(file) :
         IsIntText(file[i].patient_id) /\ IntOfText(file[i].patient_id) = id]

LastRow(file) == file[Len(file)]

\* C11: a successful schedule_appointment or generate_bill stores a row whose
\* patient_name is the name the patients collection holds for that patient_id
\* at the call, and whose status is Scheduled for an appointment, Pending for
\* a bill.
C11_NameSnapshotDefaultStatus ==
  [][ /\ (op'.name = "schedule_appointment" /\ ret'.t = "int") =>
           /\ LastRow(appointments').patient_name = PatientRow(patients, op'.arg.v).name
           /\ LastRow(appointments').status = << "S", "c", "h", "e", "d", "u", "l", "e", "d" >>
      /\ (op'.name = "generate_bill" /\ ret'.t = "int") =>
           /\ LastRow(billing').patient_name = PatientRow(patients, op'.arg.v).name
           /\ LastRow(billing').status = << "P", "e", "n", "d", "i", "n", "g" >> ]_vars

\* the number a text of the amount column stands for
AmountOf(s) == IF IsIntText(s) THEN IntOfText(s) ELSE FloatOfText(s)

\* the sum of the amounts of the bills of a file
RECURSIVE SumAmounts(_)
SumAmounts(file) ==
  IF Len(file) = 0 THEN 0 ELSE AmountOf(file[1].amount) + SumAmounts(Tail(file))

\* the bills of a file that have a status
WithStatus(file, status) == SelectSeq(file, LAMBDA b : b.status = status)

\* C12: for every non-empty Bill collection generate_financial_reports gives
\* total_revenue = the sum of all amounts, pending_amount = the sum of the
\* amounts of the bills whose status is exactly Pending, paid_amount = the sum
\* of the amounts of the bills whose status is exactly Paid.
C12_FinancialSums ==
  (op.name = "generate_financial_reports" /\ Len(billing) > 0) =>
    /\ DOMAIN ret.v = { "total_revenue", "total_bills", "pending_amount", "paid_amount",
                        "average_bill_amount", "most_profitable_service" }
    /\ ret.v.total_revenue = F(SumAmounts(billing))
    /\ ret.v.pending_amount = F(SumAmounts(WithStatus(billing, << "P", "e", "n", "d", "i", "n", "g" >>)))
    /\ ret.v.paid_amount = F(SumAmounts(WithStatus(billing, << "P", "a", "i", "d" >>)))

C12_Witness ==
  /\ op.name = "generate_financial_reports"
  /\ Len(billing) = 2
  /\ billing[1].status = << "P", "e", "n", "d", "i", "n", "g" >>
  /\ billing[2].status = << "P", "a", "i", "d" >>
  /\ ret.v.total_revenue = F(350)
  /\ ret.v.pending_amount = F(150)
  /\ ret.v.paid_amount = F(200)

\* C13: get_system_stats returns the number of rows of each collection as
\* total_patients, total_appointments, total_medical_records and total_bills,
\* and the sum of the amounts of all bills, whatever their status, as
\* total_revenue; on four empty collections these are all 0 and the result is
\* no error.
C13_SystemStats ==
  op.name = "get_system_stats" =>
    /\ DOMAIN ret.v = { "total_patients", "total_appointments", "total_medical_records",
                        "total_bills", "total_revenue", "timestamp" }
    /\ ret.v.total_patients = I(Len(patients))
    /\ ret.v.total_appointments = I(Len(appointments))
    /\ ret.v.total_medical_records = I(Len(medical))
    /\ ret.v.total_bills = I(Len(billing))
    /\ IsNumber(ret.v.total_revenue)
    /\ ret.v.total_revenue.v = SumAmounts(billing)

C13_Witness ==
  /\ op.name = "get_system_stats"
  /\ Len(patients) = 0
  /\ Len(billing) = 2
  /\ billing[1].status = << "P", "a", "i", "d" >>
  /\ billing[2].status = << "P", "e", "n", "d", "i", "n", "g" >>
  /\ ret.v.total_bills = I(2)
  /\ ret.v.total_revenue = F(350)

ReportOps ==
  { "generate_patient_statistics", "generate_appointment_analytics",
    "generate_financial_reports", "generate_medical_analytics",
    "generate_dashboard_summary" }

\* what a report returned, the generation timestamp left out
Statistics(r) == [ k \in DOMAIN r.v \ { "timestamp" } |-> r.v[k] ]

NotANumber(s) == ~IsIntText(s) /\ ~IsFloatText(s)

\* the files on which a report cannot give statistics
PatientReportFails ==
  read_csv_raises(patients) \/ Len(patients) = 0
    \/ \E i \in 1..Len(patients) : NotANumber(patients[i].age)

AppointmentReportFails == read_csv_raises(appointments) \/ Len(appointments) = 0

FinancialReportFails ==
  read_csv_raises(billing) \/ Len(billing) = 0
    \/ \E i \in 1..Len(billing) : NotANumber(billing[i].amount)

MedicalReportFails == read_csv_raises(medical) \/ Len(medical) = 0

\* d is an error payload if the report failed, else statistics with the count n
Payload(d, fails, total, n) ==
  IF fails THEN "error" \in DOMAIN d.v
  ELSE "error" \notin DOMAIN d.v /\ d.v[total] = I(n)

\* C15: whichever sub-reports fail, generate_dashboard_summary returns a dict
\* with patient_stats, appointment_stats, financial_stats and medical_stats
\* (and the timestamp): an error payload for each report that failed, the
\* statistics for each that did not; the dashboard itself is no error.
C15_DashboardKeepsGoing ==
  op.name = "generate_dashboard_summary" =>
    /\ DOMAIN ret.v = { "patient_stats", "appointment_stats", "financial_stats",
                        "medical_stats", "timestamp" }
    /\ Payload(ret.v.patient_stats, PatientReportFails, "total_patients", Len(patients))
    /\ Payload(ret.v.appointment_stats, AppointmentReportFails, "total_appointments",
               Len(appointments))
    /\ Payload(ret.v.financial_stats, FinancialReportFails, "total_bills", Len(billing))
    /\ Payload(ret.v.medical_stats, MedicalReportFails, "total_medical_records",
               Len(medical))

C15_Witness ==
  /\ op.name = "generate_dashboard_summary"
  /\ billing = Unreadable
  /\ ~PatientReportFails
  /\ ~AppointmentReportFails
  /\ ~MedicalReportFails
  /\ "error" \in DOMAIN ret.v.financial_stats.v
  /\ ret.v.patient_stats.v.total_patients = I(1)
  /\ ret.v.appointment_stats.v.total_appointments = I(1)
  /\ ret.v.medical_stats.v.total_medical_records = I(1)

\* C16: a record added to a collection right after its row with the highest
\* id was deleted from the file by hand gets the id of the deleted row, an id
\* that was assigned before.
C16_RemovedIdReused ==
  [][ /\ (op.name = "remove_patient" /\ op'.name = "add_patient" /\ ret'.t = "int")
           => ret' = op.arg
      /\ (op.name = "remove_appointment" /\ op'.name = "schedule_appointment"
          /\ ret'.t = "int") => ret' = op.arg
      /\ (op.name = "remove_record" /\ op'.name = "add_medical_record" /\ ret'.t = "int")
           => ret' = op.arg
      /\ (op.name = "remove_bill" /\ op'.name = "generate_bill" /\ ret'.t = "int")
           => ret' = op.arg ]_vars

\* three patients were added, the one with the id 1002 twice
C16_Witness ==
  /\ op.name = "add_patient"
  /\ ret = I(1002)
  /\ Len(patients) = 2
  /\ Len(added) = 3

\* a value int() does not take: a string that is no integer
NoInteger(val) == val.t = "str" /\ ~IsIntText(val.v)

\* a value float() does not take: a string that is no number
NoNumber(val) == val.t = "str" /\ NotANumber(val.v)

\* C17: add_patient with an age that is no integer, and generate_bill for an
\* existing patient with an amount that is no number, return no id and leave
\* the patients file, the billing file, as it was.
C17_UncoercibleRejected ==
  [][ /\ (op'.name = "add_patient" /\ NoInteger(op'.arg))
           => (ret' = None /\ patients' = patients)
      /\ (op'.name = "generate_bill" /\ PatientExists(op'.arg) /\ NoNumber(op'.amount))
           => (ret' = None /\ billing' = billing) ]_vars

C17_Witness ==
  /\ op.name = "generate_bill"
  /\ op.amount = S(<< "x" >>)
  /\ PatientExists(op.arg)
  /\ ret = None
  /\ Len(patients) = 1
  /\ Len(billing) = 0

\* a text of the form YYYY-MM-DD with a month 01..12 and a day 01..31
IsDateText(s) ==
  /\ Len(s) = 10
  /\ s[5] = "-" /\ s[8] = "-"
  /\ AllDigits(SubSeq(s, 1, 4)) /\ AllDigits(SubSeq(s, 6, 7)) /\ AllDigits(SubSeq(s, 9, 10))
  /\ DigitsToNat(SubSeq(s, 6, 7)) \in 1..12
  /\ DigitsToNat(SubSeq(s, 9, 10)) \in 1..31

\* C18: schedule_appointment for an existing patient with an appointment_date
\* that is no date returns no id and adds no appointment.
C18_BadDateRejected ==
  [][ (op'.name = "schedule_appointment" /\ PatientExists(op'.arg)
       /\ ~IsDateText(op'.date))
        => (ret' = None /\ appointments' = appointments) ]_vars

\* the file a read, search or filter operation loads
ReadsOf(name) ==
  IF name \in { "get_all_patients", "search_patients", "get_patient_by_id" } THEN << patients >>
  ELSE IF name \in { "get_all_appointments", "get_appointments_by_date" }
       THEN << appointments >>
  ELSE IF name = "get_patient_medical_history" THEN << medical >>
  ELSE IF name \in { "get_patient_bills", "get_all_bills" } THEN << billing >>
  ELSE << >>

\* the files an add operation loads
LoadsOf(name) ==
  IF name = "add_patient" THEN << patients >>
  ELSE IF name = "schedule_appointment" THEN << appointments, patients >>
  ELSE IF name = "add_medical_record" THEN << medical >>
  ELSE IF name = "generate_bill" THEN << billing, patients >>
  ELSE << >>

SomeUnreadable(files) == \E i \in 1..Len(files) : read_csv_raises(files[i])

\* C19: with the file of a collection unreadable, a read, search or filter on
\* the collection returns an empty frame and an add that loads the file
\* returns None; the call returns (get_system_stats too) and the four files
\* are as they were.
C19_UnreadableGivesSentinel ==
  [][ /\ SomeUnreadable(ReadsOf(op'.name)) => ret' = DF(<< >>)
      /\ SomeUnreadable(LoadsOf(op'.name)) => ret' = None
      /\ op'.name = "get_system_stats" => ret'.t = "dict"
      /\ (SomeUnreadable(ReadsOf(op'.name)) \/ SomeUnreadable(LoadsOf(op'.name))
            \/ op'.name = "get_system_stats")
           => << patients', appointments', medical', billing' >>
                = << patients, appointments, medical, billing >> ]_vars

C19_Witness ==
  /\ op.name = "generate_bill"
  /\ billing = Unreadable
  /\ ~read_csv_raises(patients)
  /\ Len(patients) = 1
  /\ PatientExists(op.arg)
  /\ PyFloat(op.amount).ok
  /\ ret = None

\* what starting the program makes of a file
Started(file) == IF file = Missing THEN << >> ELSE file

\* C20: _init_data_files makes of every file that does not exist an empty
\* collection and leaves every file that exists as it is, rows included.
C20_InitKeepsExistingFiles ==
  [][ op'.name = "_init_data_files" =>
        /\ patients' = Started(patients)
        /\ appointments' = Started(appointments)
        /\ medical' = Started(medical)
        /\ billing' = Started(billing) ]_vars

\* a start that made the appointments file anew and kept a patient
C20_Witness ==
  /\ op.name = "_init_data_files"
  /\ op.created = { "appointments.csv" }
  /\ appointments = << >>
  /\ Len(patients) = 1
  /\ PatientExists(I(1001))

\* the operations that read, search, filter, count, report or export
ReadOps ==
  { "get_all_patients", "get_all_appointments", "get_all_bills", "get_patient_by_id",
    "search_patients", "get_appointments_by_date", "get_patient_medical_history",
    "get_patient_bills", "get_system_stats", "export_data_to_json",
    "generate_patient_statistics", "generate_appointment_analytics",
    "generate_financial_reports", "generate_medical_analytics",
    "generate_dashboard_summary" }

\* C21: no read, search, filter, statistics, analytics or export operation
\* changes any of the four collections.
C21_ReadsChangeNothing ==
  [][ op'.name \in ReadOps =>
        << patients', appointments', medical', billing' >>
          = << patients, appointments, medical, billing >> ]_vars

\* the bills of a patient who has none were asked for, and the bill of the
\* other patient is still there
C21_Witness ==
  /\ op.name = "get_patient_bills"
  /\ op.arg = I(1002)
  /\ ret = DF(<< >>)
  /\ Len(billing) = 1
  /\ billing[1].patient_id = << "1", "0", "0", "1" >>

\* the diagnoses of the medical file, a record without one left out
DiagnosesHeld == { medical[i].diagnosis : i \in 1..Len(medical) } \ { << >> }

\* how many records hold a diagnosis
Records(d) == Cardinality({ i \in 1..Len(medical) : medical[i].diagnosis = d })

Least(a, b) == IF a < b THEN a ELSE b

\* items are the n most frequent diagnoses, each with the number of its
\* records, in descending order of that number
TopItems(items, n) ==
  LET keys == { items[i][1].v : i \in DOMAIN items }
  IN /\ Len(items) = Least(n, Cardinality(DiagnosesHeld))
     /\ keys \subseteq DiagnosesHeld
     /\ Cardinality(keys) = Len(items)
     /\ \A i \in DOMAIN items : items[i][2] = I(Records(items[i][1].v))
     /\ \A i, j \in DOMAIN items : i < j => Records(items[i][1].v) >= Records(items[j][1].v)
     /\ \A k \in keys, d \in DiagnosesHeld \ keys : Records(d) <= Records(k)

\* the diagnosis frequency of a report is that of the n most frequent
\* diagnoses, most frequent first, and its most common diagnosis is one of the
\* most frequent
TopDiagnoses(r, n) ==
  /\ TopItems(r.diagnosis_distribution, n)
  /\ DiagnosesHeld # {} =>
       /\ r.most_common_diagnosis.v \in DiagnosesHeld
       /\ \A d \in DiagnosesHeld : Records(d) <= Records(r.most_common_diagnosis.v)

\* C22: generate_medical_analytics reports the frequency of the 10 most
\* frequent diagnoses, all of them when fewer than 10 are held, in descending
\* order of count, and its most_common_diagnosis is a diagnosis of maximal
\* count.
C22_TopTenDiagnoses ==
  (op.name = "generate_medical_analytics" /\ "error" \notin DOMAIN ret.v)
    => TopDiagnoses(ret.v, 10)

\* C22 as the code has it: the chart common_diagnoses.html holds the 10 most
\* frequent diagnoses, the diagnosis_distribution of the report the 5 most
\* frequent ones, each with its count and in descending order of count, all
\* of them when fewer are held, and most_common_diagnosis is a diagnosis of
\* maximal count.
C22_TopFiveHeld ==
  (op.name = "generate_medical_analytics" /\ "error" \notin DOMAIN ret.v)
    => /\ TopDiagnoses(ret.v, 5)
       /\ IF DiagnosesHeld = {} THEN "common_diagnoses.html" \notin DOMAIN viz
          ELSE /\ "common_diagnoses.html" \in DOMAIN viz
               /\ TopItems(viz["common_diagnoses.html"], 10)

\* eleven diagnoses are held, the second of them twice: the chart holds ten,
\* the report five, both with the second diagnosis first
C22_Witness ==
  /\ op.name = "generate_medical_analytics"
  /\ "error" \notin DOMAIN ret.v
  /\ Cardinality(DiagnosesHeld) = 11
  /\ Len(ret.v.diagnosis_distribution) = 5
  /\ Len(viz["common_diagnoses.html"]) = 10
  /\ ret.v.diagnosis_distribution[1] = << S(DiagnosisName(2)), I(2) >>
  /\ ret.v.diagnosis_distribution[2] = << S(DiagnosisName(1)), I(1) >>
  /\ viz["common_diagnoses.html"][1] = << S(DiagnosisName(2)), I(2) >>
  /\ ret.v.most_common_diagnosis = S(DiagnosisName(2))

\* the blood groups of the patients, a patient without one left out
BloodGroupsHeld == { patients[i].blood_group : i \in 1..Len(patients) } \ { << >> }

\* how many patients have a blood group
Having(g) == Cardinality({ i \in 1..Len(patients) : patients[i].blood_group = g })

\* C23: generate_patient_statistics reports as most_common_blood_group the
\* most frequent blood group among the patients, and "N/A" when no patient has
\* a blood group.
C23_MostCommonBloodGroup ==
  (op.name = "generate_patient_statistics" /\ "error" \notin DOMAIN ret.v) =>
     IF BloodGroupsHeld = {}
     THEN ret.v.most_common_blood_group = S(<< "N", "/", "A" >>)
     ELSE /\ ret.v.most_common_blood_group.v \in BloodGroupsHeld
          /\ \A g \in BloodGroupsHeld : Having(g) <= Having(ret.v.most_common_blood_group.v)

\* the records of a file, as they are loaded, whose cell in a column is a text
Picked(file, col, text) ==
  LET df == fillna(read_csv(file))
      at == SelectSeq([ i \in 1..Len(file) |-> i ], LAMBDA i : file[i][col] = text)
  IN [ k \in 1..Len(at) |-> df[at[k]] ]

\* C24: get_appointments_by_date(d), get_patient_medical_history(p) and
\* get_patient_bills(p) return the records of their file whose appointment_date
\* is d, respectively whose patient_id is p, in the order of the file, and no
\* record when none matches.
C24_FiltersSelectEqual ==
  /\ (op.name = "get_appointments_by_date" /\ ~read_csv_raises(appointments))
       => ret = DF(Picked(appointments, "appointment_date", op.arg.v))
  /\ (op.name = "get_patient_medical_history" /\ ~read_csv_raises(medical))
       => ret = DF(Picked(medical, "patient_id", IntToText(op.arg.v)))
  /\ (op.name = "get_patient_bills" /\ ~read_csv_raises(billing))
       => ret = DF(Picked(billing, "patient_id", IntToText(op.arg.v)))

\* of the records of two patients the history of one was asked for
C24_Witness ==
  /\ op.name = "get_patient_medical_history"
  /\ op.arg = I(1002)
  /\ ~read_csv_raises(medical)
  /\ Len(medical) = 2
  /\ medical[1].patient_id = << "1", "0", "0", "2" >>
  /\ medical[2].patient_id = << "1", "0", "0", "1" >>
  /\ Len(ret.v) = 1
  /\ ret.v[1].record_id = I(1001)

\* a row names a patient of the patients file by id and by name
NamesPatient(row) ==
  \E j \in 1..Len(patients) :
     /\ patients[j].patient_id = row.patient_id
     /\ patients[j].name = row.patient_name

\* C25: every appointment and every bill holds the id of a patient of the
\* patients file and, as patient_name, the name that patient has.
C25_ReferencesHold ==
  /\ \A i \in 1..Len(appointments) : NamesPatient(appointments[i])
  /\ \A i \in 1..Len(billing) : NamesPatient(billing[i])

\* the k-th row of a file holds the id 1000 + k
Contiguous(file, col) == \A k \in 1..Len(file) : file[k][col] = IntToText(1000 + k)

\* C26: in every state the program reaches on its own from empty files, the
\* k-th record of each collection has the id 1000 + k.
C26_IdsContiguous ==
  /\ Contiguous(patients, "patient_id")
  /\ Contiguous(appointments, "appointment_id")
  /\ Contiguous(medical, "record_id")
  /\ Contiguous(billing, "bill_id")

\* a second medical record was written
C26_Witness ==
  /\ op.name = "add_medical_record"
  /\ ret = I(1002)
  /\ Len(medical) = 2
  /\ medical[2].record_id = << "1", "0", "0", "2" >>

\* C27: every bill the program has written is Pending and every appointment
\* Scheduled, so the financial report gives paid_amount 0 and pending_amount
\* equal to total_revenue, and the appointment report gives as many scheduled
\* appointments as appointments and no completed one.
C27_DefaultStatusesOnly ==
  /\ \A i \in 1..Len(billing) : billing[i].status = << "P", "e", "n", "d", "i", "n", "g" >>
  /\ \A i \in 1..Len(appointments) : appointments[i].status = << "S", "c", "h", "e", "d", "u", "l", "e", "d" >>
  /\ (op.name = "generate_financial_reports" /\ "error" \notin DOMAIN ret.v) =>
        /\ ret.v.paid_amount = F(0)
        /\ ret.v.pending_amount = ret.v.total_revenue
  /\ (op.name = "generate_appointment_analytics" /\ "error" \notin DOMAIN ret.v) =>
        /\ ret.v.scheduled_appointments = ret.v.total_appointments
        /\ ret.v.completed_appointments = I(0)

\* the financial report on one bill of 150.0
C27_Witness ==
  /\ op.name = "generate_financial_reports"
  /\ "error" \notin DOMAIN ret.v
  /\ Len(billing) = 1
  /\ ret.v.total_revenue = F(150)
  /\ ret.v.pending_amount = F(150)

\* C28: an add operation changes no collection but its own: add_patient
\* leaves appointments, medical records and bills as they are,
\* schedule_appointment patients, medical records and bills,
\* add_medical_record patients, appointments and bills, and generate_bill
\* patients, appointments and medical records.
C28_AddsKeepOtherFiles ==
  [][ /\ op'.name = "add_patient" =>
           << appointments', medical', billing' >> = << appointments, medical, billing >>
      /\ op'.name = "schedule_appointment" =>
           << patients', medical', billing' >> = << patients, medical, billing >>
      /\ op'.name = "add_medical_record" =>
           << patients', appointments', billing' >> = << patients, appointments, billing >>
      /\ op'.name = "generate_bill" =>
           << patients', appointments', medical' >> = << patients, appointments, medical >> ]_vars

\* an appointment was written for a patient whose contact is 07
C28_Witness ==
  /\ op.name = "schedule_appointment"
  /\ ret = I(1001)
  /\ Len(appointments) = 1
  /\ Len(patients) = 1
  /\ patients[1].contact = << "0", "7" >>

\* C29: an add that returns no id writes nothing to its collection, and the
\* add on the same collection that succeeds right after it returns 1001 on an
\* empty collection and one more than the largest id otherwise.
C29_FailedAddTakesNoId ==
  [][ /\ (op'.name = "add_patient" /\ ret' = None) => patients' = patients
      /\ (op'.name = "schedule_appointment" /\ ret' = None) => appointments' = appointments
      /\ (op'.name = "add_medical_record" /\ ret' = None) => medical' = medical
      /\ (op'.name = "generate_bill" /\ ret' = None) => billing' = billing
      /\ (op.name = op'.name /\ ret = None /\ ret'.t = "int") =>
           /\ op'.name = "add_patient" => ret'.v = NextIdOf(patients, "patient_id")
           /\ op'.name = "schedule_appointment" => ret'.v = NextIdOf(appointments, "appointment_id")
           /\ op'.name = "add_medical_record" => ret'.v = NextIdOf(medical, "record_id")
           /\ op'.name = "generate_bill" => ret'.v = NextIdOf(billing, "bill_id") ]_vars

\* a bill for a patient of the file failed on its amount and left no row
C29_Witness ==
  /\ op.name = "generate_bill"
  /\ ret = None
  /\ PatientExists(op.arg)
  /\ ~PyFloat(op.amount).ok
  /\ Len(billing) = 0

\* a patient of the patients file has the id
Registered(id) == \E j \in 1..Len(patients) : patients[j].patient_id = id

\* the function reads the patients file, and then
Listing == menu.at = "idle" /\ menu'.at = "listed"
Found == menu.at = "listed" /\ menu'.at = "checked"
NotFound == menu.at = "listed" /\ menu'.at = "idle"

\* C30: add_medical_record_interactive returns without calling
\* add_medical_record when there is no patient or when no patient has the id
\* entered, so every medical record written through the menu holds the id of
\* a patient of the patients file.
C30_MenuRecordsKnownPatients ==
  [][ /\ (menu.at = "idle" /\ Len(patients) = 0) => (menu'.at = "idle" /\ medical' = medical)
      /\ Listing => Len(patients) > 0
      /\ Found => Registered(IntToText(menu'.patient_id.v))
      /\ NotFound => /\ op'.name = "add_medical_record_interactive"
                     /\ ~op'.called /\ ret' = None /\ medical' = medical
                     /\ ~Registered(IntToText(op'.arg.v))
      /\ medical' # medical =>
            /\ menu.at = "checked" /\ op'.called
            /\ medical'[Len(medical')].patient_id = IntToText(menu.patient_id.v)
      /\ \A i \in 1..Len(medical') : Registered(medical'[i].patient_id) ]_vars

\* the id of no patient was entered while a patient was there
C30_Witness ==
  /\ op.name = "add_medical_record_interactive"
  /\ op.arg = I(1002)
  /\ ~op.called
  /\ Len(patients) = 1
  /\ ret = None
  /\ Len(medical) = 0
  /\ menu = NoMenu

\* a record written through the menu names a patient that the file has lost
\* between the prompts
MenuRecordOfLostPatient ==
  /\ op.name = "add_medical_record_interactive"
  /\ op.called
  /\ ret = I(1001)
  /\ Len(patients) = 0
  /\ Len(medical) = 1

\* the id entered is not found in a file emptied since the patients were listed
MenuNotFoundOnEmptyFile ==
  /\ op.name = "add_medical_record_interactive"
  /\ op.arg = I(1001)
  /\ ~op.called
  /\ Len(patients) = 0

====
